---------------------------- MODULE Spec2Model ----------------------------
(***************************************************************************)
(* A model of the Concurrent-Web-Content-Aggregator orchestration layer:   *)
(* the Coordinator (internal/coordinator/coordinator.go), its two          *)
(* WorkerPools and its four bounded channels.                              *)
(*                                                                         *)
(* One action is one atomic step of one goroutine: a channel operation, a  *)
(* critical section under a mutex, or a call that touches no shared state  *)
(* followed by the critical section it leads to.  A Go select whose cases  *)
(* are ready together picks one of them at random, so every ready case is  *)
(* an enabled action.  An unrecovered panic ends the whole process.        *)
(*                                                                         *)
(* The goroutines of a pool run the same function and differ only in the   *)
(* id they log and stamp on results (ProcessedBy), which no decision of    *)
(* the program reads; a pool's goroutines are therefore kept as a bag of   *)
(* goroutine states, and a goroutine that has returned leaves the bag.     *)
(***************************************************************************)
EXTENDS Integers, Sequences, FiniteSets, Bags, TLC

\* ------------------------------------------------------------------ bounds
\* the configuration and the number of sources of a run with cancellation
\* and shutdown (Spec, FullSpec, FairSpec)
MaxFetchers == 1
MaxParsers == 1
NumJobs == 2
\* the configuration of a run whose result queues nobody reads (BackSpec);
\* its number of sources is one more than the fetch stage can hold
BackFetchers == 1
BackParsers == 1
\* the configuration and the number of sources of an undisturbed run (RunSpec)
RunFetchers == 2
RunParsers == 1
RunJobs == 2
\* number of Coordinator.Wait() calls (each starts two drain goroutines)
MaxWaitCalls == 2
\* a WorkerPool on its own (PoolSpec): the largest size asked for, and the
\* number of Start and Stop calls made on it
MaxPoolSize == 2
MaxPoolCalls == 3
\* RobotsCache.checkRules on its own (RulesSpec): the longest rule list, rule
\* path and request path it is applied to
MaxRules == 2
MaxRuleLen == 2
MaxPathLen == 2
\* a RobotsCache for one host (RobotsSpec): the clock runs from 0 to MaxTime
\* hours, the Expiration option is at most MaxExpiration hours, and
\* MaxRobotsCalls IsAllowed calls are made
MaxTime == 2
MaxExpiration == 1
MaxRobotsCalls == 3
\* a Fetcher for one source (FetchSpec): the bucket of its host holds at most
\* MaxCapacity tokens and gains one every MaxPeriod seconds at the slowest,
\* the clock runs from 0 to MaxFetchTime seconds, and MaxFetchCalls Fetch
\* calls are made
MaxCapacity == 2
MaxPeriod == 2
MaxFetchTime == 2
MaxFetchCalls == 2
\* a run of cmd/aggregator (MainSpec): a configuration file or a sources file
\* declares at most MaxSources sources
MaxSources == 2
\* the http.Client of a Fetcher on its own (ClientSpec): MaxRedirects is at
\* most MaxRedirectsLimit, and a request is answered by at most MaxChain
\* redirects before its final response
MaxRedirectsLimit == 3
MaxChain == 4
\* 24 * time.Hour, in hours
DefaultExpiration == 24

VARIABLES
    cfg,            \* config.Config: MaxFetchers, MaxParsers, number of Sources
    ctxCancelled,   \* the parent context handed to Coordinator.Start is done
    pools,          \* WorkerPool fields: isRunning, cancelled (p.cancel called), wg
    fw,             \* fetch worker goroutines, each [pc, job, res]
    pw,             \* parse worker goroutines, each [pc, job, res]
    fetchJobs,      \* chan *model.FetchJob
    fetchResults,   \* chan *model.FetchResult
    parseJobs,      \* chan *model.ParseJob
    parseResults,   \* chan *model.ParseResult
    closed,         \* which channels have been closed
    stats,          \* Coordinator.stats
    startPc,        \* position of the caller of Coordinator.Start
    stopPc,         \* position of the caller of Coordinator.Stop
    subPc,          \* position of the caller of SubmitFetchJob
    accepted,       \* jobs whose send in SubmitFetchJob has completed
    waitCalls,      \* Coordinator.Wait calls made so far
    fd,             \* results held by the fetch-result drain goroutines of Wait
    pd,             \* results held by the parse-result drain goroutines of Wait
    panicked,       \* the process died of an unrecovered panic
    hist,           \* history: what was placed on and taken off the queues
    snap,           \* the Stats copy the last GetStats() call returned
    wpReq,          \* a WorkerPool on its own: the size NewWorkerPool was asked for
    wp,             \* its fields: size, isRunning, ctx, cancelled, wg
    wpPc,           \* the threads calling its Start and Stop
    wpWorkers,      \* its worker goroutines that have not returned, each [id, ctx]
    wpHist,         \* history: the worker ids each Start launched, calls made
    crRules,        \* checkRules on its own: the []Rule it is given
    crPath,         \* the path it is given
    crOut,          \* what it returned
    rcExpiration,   \* RobotsCache.expiration, in hours
    rcCache,        \* RobotsCache.cache[host], for one host
    rcNow,          \* time.Now(), in hours
    rcCalls,        \* the IsAllowed calls in progress, one per caller
    rcOut,          \* what the last IsAllowed call to return has returned
    rcHist,         \* history: calls made, robots.txt requests issued, and the
                    \* Expiration option the cache was built with
    ftSrc,          \* a Fetcher for one source: the model.Source, and what its
                    \* host's robots.txt says about its path
    ftCalls,        \* the fetch workers' Fetch calls: a bag of call states
    ftOut,          \* the FetchResult a worker last built from the answer of Fetch
    ftRobots,       \* Fetcher.robotsCache[host] holds the host's robots data
    ftBucket,       \* RateLimiter.buckets[host]
    ftNow,          \* time.Now(), in seconds
    ftCtxDone,      \* the context handed to Fetch is done
    ftStats,        \* Coordinator.stats, as the workers' processFetchJob updates it
    ftHist,         \* history: calls made, take() calls granted, and the takes
                    \* made since the bucket was last found full
    mnArgs,         \* a run of cmd/aggregator: its flags and the files they name
    mnPc,           \* the position of main
    mnLoaded,       \* what config.LoadConfig returned
    mnCoord,        \* the Coordinator: created by coordinator.New, pools started
    hcMaxRedirects, \* the http.Client of a Fetcher: cfg.App.HTTP.MaxRedirects
    hcReq,          \* the client.Do call in progress: the redirects the servers
                    \* answer with, and the requests made so far (via)
    hcOut           \* what the last client.Do call returned

\* the state of the Coordinator and its pools
coordVars == <<cfg, ctxCancelled, pools, fw, pw, fetchJobs, fetchResults, parseJobs,
               parseResults, closed, stats, startPc, stopPc, subPc, accepted,
               waitCalls, fd, pd, panicked, hist>>

\* the state of the callers and components around it, which no step of the
\* Coordinator touches
poolVars == <<wpReq, wp, wpPc, wpWorkers, wpHist>>

ruleVars == <<crRules, crPath, crOut>>

robotsVars == <<rcExpiration, rcCache, rcNow, rcCalls, rcOut, rcHist>>

fetchVars == <<ftSrc, ftCalls, ftOut, ftRobots, ftBucket, ftNow, ftCtxDone, ftStats,
               ftHist>>

mainVars == <<mnArgs, mnPc, mnLoaded, mnCoord>>

clientVars == <<hcMaxRedirects, hcReq, hcOut>>

restVars == <<ruleVars, robotsVars, fetchVars, mainVars, clientVars>>

otherVars == <<snap, poolVars, restVars>>

vars == <<coordVars, otherVars>>

\* ----------------------------------------------------------------- values
Nil == [source |-> 0]
\* no GetStats() call has returned yet
NoStats == [ProcessedSources |-> -1]
Jobs == 1..cfg.Sources
PoolNames == {"fetcher", "parser"}

\* NewWorkerPool: size <= 0 is replaced by 1
\* a pool constructor that keeps the size it is given
NewWorkerPoolUnclamped(size) == size

NewWorkerPool(size) == IF size <= 0 THEN 1 ELSE size

\* Coordinator.New: the sizes of the two pools
PoolSize(p) == IF p = "fetcher" THEN NewWorkerPool(cfg.MaxFetchers)
                                ELSE NewWorkerPool(cfg.MaxParsers)

\* Coordinator.New: make(chan, capacity)
Cap(ch) == IF ch \in {"fetchJobs", "fetchResults"} THEN cfg.MaxFetchers
                                                   ELSE cfg.MaxParsers

\* the outcomes Fetcher.Fetch can return for source j: (Content, nil) or (nil, err)
FetchOutcomes(j) == { [content |-> j, err |-> FALSE], [content |-> 0, err |-> TRUE] }

\* the outcomes of processParseJob's parser lookup and parser.Parse
ParseOutcomes == { "ok", "parseError", "noParser" }

\* the context a pool hands its workers: child of the parent, cancelled by p.cancel
CtxDone(p) == ctxCancelled \/ pools[p].cancelled

\* p.mu is held by Stop for the whole of wg.Wait()
PoolLockHeld(p) == \/ p = "fetcher" /\ stopPc = "joinFetchers"
                   \/ p = "parser" /\ stopPc = "joinParsers"

\* bags of goroutine states
Put(b, e) == b (+) SetToBag({e})
Take(b, e) == b (-) SetToBag({e})
Copies(e, n) == IF n = 0 THEN EmptyBag ELSE [x \in {e} |-> n]

\* ------------------------------------------------------------------- Init
\* the threads that call Start and Stop of the WorkerPool on its own
PoolThreads == {"t1", "t2"}

\* a WorkerPool as NewWorkerPool(n, name) returns it; ctx 0 is the nil context
\* and the contexts Start creates are numbered from 1
PoolInitWith(n) ==
    /\ wpReq = n
    /\ wp = [size |-> NewWorkerPool(n), isRunning |-> FALSE, ctx |-> 0,
             cancelled |-> {}, wg |-> 0]
    /\ wpPc = [t \in PoolThreads |-> "idle"]
    /\ wpWorkers = {}
    /\ wpHist = [launches |-> <<>>, calls |-> 0, startReturns |-> 0,
                 raced |-> FALSE, waits |-> 0, lateStart |-> FALSE]

\* nothing around the Coordinator has happened yet
\* the rule lists and paths checkRules is applied to
PathChars == {"/", "a"}
SeqsOf(S, lo, hi) == UNION { [1..k -> S] : k \in lo..hi }
RulePaths ==
    SeqsOf(PathChars, 1, MaxRuleLen)
        \cup { p \o <<"*">> : p \in SeqsOf(PathChars, 0, MaxRuleLen - 1) }
Rules == [Path : RulePaths, Allow : BOOLEAN]
RuleLists == SeqsOf(Rules, 0, MaxRules)
RequestPaths == SeqsOf(PathChars, 1, MaxPathLen)
NoAnswer == [done |-> FALSE, allow |-> FALSE]

RulesInitWith(rules, path) ==
    /\ crRules = rules
    /\ crPath = path
    /\ crOut = NoAnswer

\* NewRobotsCache: only a negative Expiration option is replaced
NewRobotsCache(expiration) ==
    IF expiration < 0 THEN DefaultExpiration ELSE expiration

\* the callers of IsAllowed
RobotsCallers == {"c1", "c2"}
\* r.cache[host] is absent
NoEntry == [Expires |-> -1]
\* no IsAllowed call has returned
NoVerdict == [via |-> "none"]

RobotsInitWith(expiration) ==
    /\ rcExpiration = NewRobotsCache(expiration)
    /\ rcCache = NoEntry
    /\ rcNow = 0
    /\ rcCalls = [c \in RobotsCallers |-> [pc |-> "idle"]]
    /\ rcOut = NoVerdict
    /\ rcHist = [calls |-> 0, fetches |-> 0, option |-> expiration]

\* the parts of the program a specification does not run are absent from it
NoCoordinator ==
    /\ cfg = 0 /\ ctxCancelled = 0 /\ pools = 0 /\ fw = 0 /\ pw = 0
    /\ fetchJobs = 0 /\ fetchResults = 0 /\ parseJobs = 0 /\ parseResults = 0
    /\ closed = 0 /\ stats = 0 /\ startPc = 0 /\ stopPc = 0 /\ subPc = 0
    /\ accepted = 0 /\ waitCalls = 0 /\ fd = 0 /\ pd = 0 /\ panicked = 0
    /\ hist = 0 /\ snap = 0
NoPool == wpReq = 0 /\ wp = 0 /\ wpPc = 0 /\ wpWorkers = 0 /\ wpHist = 0
NoRules == crRules = 0 /\ crPath = 0 /\ crOut = 0
NoRobots ==
    /\ rcExpiration = 0 /\ rcCache = 0 /\ rcNow = 0 /\ rcCalls = 0
    /\ rcOut = 0 /\ rcHist = 0
NoFetcher ==
    /\ ftSrc = 0 /\ ftCalls = 0 /\ ftOut = 0 /\ ftRobots = 0 /\ ftBucket = 0
    /\ ftNow = 0 /\ ftCtxDone = 0 /\ ftStats = 0 /\ ftHist = 0
NoMain == mnArgs = 0 /\ mnPc = 0 /\ mnLoaded = 0 /\ mnCoord = 0
NoClient == hcMaxRedirects = 0 /\ hcReq = 0 /\ hcOut = 0

OtherInit ==
    /\ snap = NoStats
    /\ NoPool
    /\ NoRules
    /\ NoRobots
    /\ NoFetcher
    /\ NoMain
    /\ NoClient

\* the state Coordinator.New returns for configuration c
InitWith(c) ==
    /\ cfg = c
    /\ ctxCancelled = FALSE
    /\ pools = [p \in PoolNames |-> [isRunning |-> FALSE, cancelled |-> FALSE, wg |-> 0]]
    /\ fw = EmptyBag
    /\ pw = EmptyBag
    /\ fetchJobs = <<>>
    /\ fetchResults = <<>>
    /\ parseJobs = <<>>
    /\ parseResults = <<>>
    /\ closed = {}
    /\ stats = [ProcessedSources |-> 0, SuccessfulFetches |-> 0, FailedFetches |-> 0,
                SuccessfulParses |-> 0, FailedParses |-> 0, EndTimeSet |-> FALSE]
    /\ startPc = "new"
    /\ stopPc = "idle"
    /\ subPc = "idle"
    /\ accepted = 0
    /\ waitCalls = 0
    /\ fd = EmptyBag
    /\ pd = EmptyBag
    /\ panicked = FALSE
    /\ hist = [dequeued |-> [j \in 1..c.Sources |-> 0],
               fetchResultsPlaced |-> [j \in 1..c.Sources |-> 0],
               parseJobsPlaced |-> [j \in 1..c.Sources |-> 0],
               parseResultsPlaced |-> [j \in 1..c.Sources |-> 0],
               results |-> {},
               drained |-> FALSE,
               read |-> FALSE,
               fetchDrains |-> [j \in 1..c.Sources |-> 0],
               fetchCounts |-> [j \in 1..c.Sources |-> 0],
               fetchReads |-> [j \in 1..c.Sources |-> 0],
               parseDrains |-> [j \in 1..c.Sources |-> 0],
               parseCounts |-> [j \in 1..c.Sources |-> 0],
               parseReads |-> [j \in 1..c.Sources |-> 0]]

\* the configuration of the Coordinator in the specifications that are about
\* something else
IdleConfig == [MaxFetchers |-> MaxFetchers, MaxParsers |-> MaxParsers,
               Sources |-> NumJobs]

Init == InitWith(IdleConfig) /\ OtherInit

BackInit ==
    /\ InitWith([MaxFetchers |-> BackFetchers, MaxParsers |-> BackParsers,
                 Sources |-> 3 * BackFetchers + 1])
    /\ OtherInit

RunInit ==
    /\ InitWith([MaxFetchers |-> RunFetchers, MaxParsers |-> RunParsers,
                 Sources |-> RunJobs])
    /\ OtherInit

\* ------------------------------------------------------------ WorkerPool
\* WorkerPool.Start under p.mu: a running pool is left alone, an idle one gets
\* a fresh cancellable context, isRunning = true, wg.Add(size) and size
\* goroutines, each entering its worker function
WorkerPoolStart(p) ==
    /\ ~PoolLockHeld(p)
    /\ IF pools[p].isRunning
       THEN UNCHANGED <<pools, fw, pw>>
       ELSE /\ pools' = [pools EXCEPT ![p] = [isRunning |-> TRUE, cancelled |-> FALSE,
                                               wg |-> @.wg + PoolSize(p)]]
            /\ IF p = "fetcher"
               THEN /\ fw' = fw (+) Copies([pc |-> "select", job |-> 0, res |-> Nil],
                                           PoolSize(p))
                    /\ pw' = pw
               ELSE /\ pw' = pw (+) Copies([pc |-> "select", job |-> Nil, res |-> Nil],
                                           PoolSize(p))
                    /\ fw' = fw

\* the deferred p.wg.Done() of a worker goroutine whose worker function returned
WgDone(p) == [pools EXCEPT ![p].wg = @ - 1]

\* ------------------------------------------------- Coordinator.Start / Wait
StartFetcherPool ==
    /\ ~panicked
    /\ UNCHANGED otherVars
    /\ startPc = "new"
    /\ WorkerPoolStart("fetcher")
    /\ startPc' = "fetchersStarted"
    /\ UNCHANGED <<cfg, ctxCancelled, fetchJobs, fetchResults, parseJobs, parseResults,
                   closed, stats, stopPc, subPc, accepted, waitCalls,
                   fd, pd, panicked, hist>>

StartParserPool ==
    /\ ~panicked
    /\ UNCHANGED otherVars
    /\ startPc = "fetchersStarted"
    /\ WorkerPoolStart("parser")
    /\ startPc' = "started"
    /\ UNCHANGED <<cfg, ctxCancelled, fetchJobs, fetchResults, parseJobs, parseResults,
                   closed, stats, stopPc, subPc, accepted, waitCalls,
                   fd, pd, panicked, hist>>

\* Coordinator.Wait: starts one drain goroutine per result queue and returns
Wait ==
    /\ ~panicked
    /\ UNCHANGED otherVars
    /\ waitCalls < MaxWaitCalls
    /\ waitCalls' = waitCalls + 1
    /\ UNCHANGED <<cfg, ctxCancelled, pools, fw, pw, fetchJobs, fetchResults, parseJobs,
                   parseResults, closed, stats, startPc, stopPc, subPc,
                   accepted, fd, pd, panicked, hist>>

\* the signal handler of main calls cancel() on the top-level context
Cancel ==
    /\ ~panicked
    /\ UNCHANGED otherVars
    /\ ~ctxCancelled
    /\ ctxCancelled' = TRUE
    /\ UNCHANGED <<cfg, pools, fw, pw, fetchJobs, fetchResults, parseJobs, parseResults,
                   closed, stats, startPc, stopPc, subPc, accepted,
                   waitCalls, fd, pd, panicked, hist>>

\* ------------------------------------------------------- SubmitFetchJob
\* a caller enters SubmitFetchJob with the next source
SubmitCall ==
    /\ ~panicked
    /\ UNCHANGED otherVars
    /\ subPc = "idle"
    /\ accepted < cfg.Sources
    /\ subPc' = "sending"
    /\ UNCHANGED <<cfg, ctxCancelled, pools, fw, pw, fetchJobs, fetchResults, parseJobs,
                   parseResults, closed, stats, startPc, stopPc,
                   accepted, waitCalls, fd, pd, panicked, hist>>

\* ------------------------------------------------------------- channels
\* a send that is ready whatever the buffer holds
CanSendAlways(ch, q) == TRUE

\* a send on a buffered channel is ready while the buffer has room
CanSend(ch, q) == Len(q) < Cap(ch)

\* a receive that leaves the element in the buffer
AfterReceivePeek(q) == q

\* a receive hands out the oldest element and removes it from the buffer
Received(q) == Head(q)
AfterReceive(q) == Tail(q)

\* c.fetchJobs <- job: completes once the buffer has room
SubmitFetchJob ==
    /\ ~panicked
    /\ UNCHANGED otherVars
    /\ subPc = "sending"
    /\ "fetchJobs" \notin closed
    /\ CanSend("fetchJobs", fetchJobs)
    /\ fetchJobs' = Append(fetchJobs, accepted + 1)
    /\ accepted' = accepted + 1
    /\ subPc' = "idle"
    /\ UNCHANGED <<cfg, ctxCancelled, pools, fw, pw, fetchResults, parseJobs,
                   parseResults, closed, stats, startPc, stopPc,
                   waitCalls, fd, pd, panicked, hist>>

\* c.fetchJobs <- job on a closed channel (closed before or during the send)
SubmitPanic ==
    /\ ~panicked
    /\ UNCHANGED otherVars
    /\ subPc = "sending"
    /\ "fetchJobs" \in closed
    /\ panicked' = TRUE
    /\ UNCHANGED <<cfg, ctxCancelled, pools, fw, pw, fetchJobs, fetchResults, parseJobs,
                   parseResults, closed, stats, startPc, stopPc, subPc,
                   accepted, waitCalls, fd, pd, hist>>

\* ---------------------------------------------------------- fetchWorker
\* select: case <-ctx.Done(): return
FetchWorkerCtxDone(r) ==
    /\ ~panicked
    /\ UNCHANGED otherVars
    /\ r.pc = "select"
    /\ CtxDone("fetcher")
    /\ fw' = Take(fw, r)
    /\ pools' = WgDone("fetcher")
    /\ UNCHANGED <<cfg, ctxCancelled, pw, fetchJobs, fetchResults, parseJobs,
                   parseResults, closed, stats, startPc, stopPc, subPc, accepted,
                   waitCalls, fd, pd, panicked, hist>>

\* select: case job, ok := <-c.fetchJobs with ok = true
FetchWorkerReceive(r) ==
    /\ ~panicked
    /\ UNCHANGED otherVars
    /\ r.pc = "select"
    /\ fetchJobs # <<>>
    /\ LET job == Received(fetchJobs) IN
         /\ fw' = Put(Take(fw, r), [pc |-> "process", job |-> job, res |-> Nil])
         /\ hist' = [hist EXCEPT !.dequeued[job] = @ + 1]
    /\ fetchJobs' = AfterReceive(fetchJobs)
    /\ UNCHANGED <<cfg, ctxCancelled, pools, pw, fetchResults, parseJobs,
                   parseResults, closed, stats, startPc, stopPc, subPc, accepted,
                   waitCalls, fd, pd, panicked>>

\* select: case job, ok := <-c.fetchJobs with ok = false (closed and empty)
FetchWorkerClosed(r) ==
    /\ ~panicked
    /\ UNCHANGED otherVars
    /\ r.pc = "select"
    /\ fetchJobs = <<>>
    /\ "fetchJobs" \in closed
    /\ fw' = Take(fw, r)
    /\ pools' = WgDone("fetcher")
    /\ UNCHANGED <<cfg, ctxCancelled, pw, fetchJobs, fetchResults, parseJobs,
                   parseResults, closed, stats, startPc, stopPc, subPc, accepted,
                   waitCalls, fd, pd, panicked, hist>>

\* an update of the outcome counters that leaves ProcessedSources behind
StatsAfterFetchTorn(s, err) ==
    IF err THEN [s EXCEPT !.FailedFetches = @ + 1]
    ELSE [s EXCEPT !.SuccessfulFetches = @ + 1]

\* processFetchJob, the statistics update under c.mu
StatsAfterFetch(s, err) ==
    LET failed == IF err THEN s.FailedFetches + 1 ELSE s.FailedFetches
        ok     == IF err THEN s.SuccessfulFetches ELSE s.SuccessfulFetches + 1
    IN [s EXCEPT !.FailedFetches = failed,
                 !.SuccessfulFetches = ok,
                 !.ProcessedSources = ok + failed]

\* processFetchJob: Fetcher.Fetch, the FetchResult, the statistics
ProcessFetchJob(r) ==
    /\ ~panicked
    /\ UNCHANGED otherVars
    /\ r.pc = "process"
    /\ \E out \in FetchOutcomes(r.job) :
         /\ fw' = Put(Take(fw, r),
                      [pc |-> "sendResult", job |-> r.job,
                       res |-> [source |-> r.job, content |-> out.content,
                                err |-> out.err]])
         /\ stats' = StatsAfterFetch(stats, out.err)
    /\ UNCHANGED <<cfg, ctxCancelled, pools, pw, fetchJobs, fetchResults,
                   parseJobs, parseResults, closed, startPc, stopPc, subPc,
                   accepted, waitCalls, fd, pd, panicked, hist>>

\* a parse job for every FetchResult
WantsParseJobAlways(res) == TRUE

\* if result.Error == nil && result.Content != nil
WantsParseJob(res) == res.err = FALSE /\ res.content # 0

\* parseJob := &model.ParseJob{Source: job.Source, Content: result.Content}
NewParseJob(job, res) == [source |-> job, content |-> res.content]

\* a worker that goes back to the top of the loop after every FetchResult
AfterFetchResultSentNoParse(r) == [pc |-> "select", job |-> 0, res |-> Nil]

\* a worker that fetches the source again after a failed fetch
AfterFetchResultSentRetry(r) ==
    IF WantsParseJob(r.res)
    THEN [r EXCEPT !.pc = "sendParseJob"]
    ELSE IF r.res.err THEN [pc |-> "process", job |-> r.job, res |-> Nil]
    ELSE [pc |-> "select", job |-> 0, res |-> Nil]

\* the worker after the FetchResult has been sent: on to the parse job, or
\* back to the top of the loop
AfterFetchResultSent(r) ==
    IF WantsParseJob(r.res)
    THEN [r EXCEPT !.pc = "sendParseJob"]
    ELSE [pc |-> "select", job |-> 0, res |-> Nil]

\* select: case c.fetchResults <- result
FetchWorkerSendResult(r) ==
    /\ ~panicked
    /\ UNCHANGED otherVars
    /\ r.pc = "sendResult"
    /\ CanSend("fetchResults", fetchResults)
    /\ fetchResults' = Append(fetchResults, r.res)
    /\ hist' = [hist EXCEPT !.fetchResultsPlaced[r.res.source] = @ + 1,
                            !.results = @ \cup {r.res}]
    /\ fw' = Put(Take(fw, r), AfterFetchResultSent(r))
    /\ UNCHANGED <<cfg, ctxCancelled, pools, pw, fetchJobs, parseJobs,
                   parseResults, closed, stats, startPc, stopPc, subPc, accepted,
                   waitCalls, fd, pd, panicked>>

\* select: case <-ctx.Done() while sending the result or the parse job: return
FetchWorkerSendCancelled(r) ==
    /\ ~panicked
    /\ UNCHANGED otherVars
    /\ r.pc \in {"sendResult", "sendParseJob"}
    /\ CtxDone("fetcher")
    /\ fw' = Take(fw, r)
    /\ pools' = WgDone("fetcher")
    /\ UNCHANGED <<cfg, ctxCancelled, pw, fetchJobs, fetchResults, parseJobs,
                   parseResults, closed, stats, startPc, stopPc, subPc, accepted,
                   waitCalls, fd, pd, panicked, hist>>

\* select: case c.parseJobs <- parseJob
FetchWorkerSendParseJob(r) ==
    /\ ~panicked
    /\ UNCHANGED otherVars
    /\ r.pc = "sendParseJob"
    /\ "parseJobs" \notin closed
    /\ CanSend("parseJobs", parseJobs)
    /\ parseJobs' = Append(parseJobs, NewParseJob(r.job, r.res))
    /\ hist' = [hist EXCEPT !.parseJobsPlaced[r.job] = @ + 1]
    /\ fw' = Put(Take(fw, r), [pc |-> "select", job |-> 0, res |-> Nil])
    /\ UNCHANGED <<cfg, ctxCancelled, pools, pw, fetchJobs, fetchResults,
                   parseResults, closed, stats, startPc, stopPc, subPc, accepted,
                   waitCalls, fd, pd, panicked>>

\* c.parseJobs <- parseJob on a channel Stop has closed
FetchWorkerSendParsePanic(r) ==
    /\ ~panicked
    /\ UNCHANGED otherVars
    /\ r.pc = "sendParseJob"
    /\ "parseJobs" \in closed
    /\ panicked' = TRUE
    /\ UNCHANGED <<cfg, ctxCancelled, pools, fw, pw, fetchJobs, fetchResults,
                   parseJobs, parseResults, closed, stats, startPc, stopPc, subPc,
                   accepted, waitCalls, fd, pd, hist>>

\* ---------------------------------------------------------- parseWorker
\* select: case <-ctx.Done(): return
ParseWorkerCtxDone(r) ==
    /\ ~panicked
    /\ UNCHANGED otherVars
    /\ r.pc = "select"
    /\ CtxDone("parser")
    /\ pw' = Take(pw, r)
    /\ pools' = WgDone("parser")
    /\ UNCHANGED <<cfg, ctxCancelled, fw, fetchJobs, fetchResults, parseJobs,
                   parseResults, closed, stats, startPc, stopPc, subPc, accepted,
                   waitCalls, fd, pd, panicked, hist>>

\* select: case job, ok := <-c.parseJobs with ok = true
ParseWorkerReceive(r) ==
    /\ ~panicked
    /\ UNCHANGED otherVars
    /\ r.pc = "select"
    /\ parseJobs # <<>>
    /\ pw' = Put(Take(pw, r), [pc |-> "process", job |-> Received(parseJobs),
                               res |-> Nil])
    /\ parseJobs' = AfterReceive(parseJobs)
    /\ UNCHANGED <<cfg, ctxCancelled, pools, fw, fetchJobs, fetchResults,
                   parseResults, closed, stats, startPc, stopPc, subPc, accepted,
                   waitCalls, fd, pd, panicked, hist>>

\* select: case job, ok := <-c.parseJobs with ok = false (closed and empty)
ParseWorkerClosed(r) ==
    /\ ~panicked
    /\ UNCHANGED otherVars
    /\ r.pc = "select"
    /\ parseJobs = <<>>
    /\ "parseJobs" \in closed
    /\ pw' = Take(pw, r)
    /\ pools' = WgDone("parser")
    /\ UNCHANGED <<cfg, ctxCancelled, fw, fetchJobs, fetchResults, parseJobs,
                   parseResults, closed, stats, startPc, stopPc, subPc, accepted,
                   waitCalls, fd, pd, panicked, hist>>

\* processParseJob, the statistics update under c.mu: an unregistered parser
\* type and a parser error both count one failed parse
\* statistics that count only what a parser reported
StatsAfterParseByParser(s, outcome) ==
    IF outcome = "ok" THEN [s EXCEPT !.SuccessfulParses = @ + 1]
    ELSE IF outcome = "parseError" THEN [s EXCEPT !.FailedParses = @ + 1]
    ELSE s

StatsAfterParse(s, outcome) ==
    IF outcome = "ok"
    THEN [s EXCEPT !.SuccessfulParses = @ + 1]
    ELSE [s EXCEPT !.FailedParses = @ + 1]

\* processParseJob: the ParseResult.  Without a registered parser it carries
\* the "no parser available" error and no items, and parser.Parse is not
\* called; otherwise it carries what parser.Parse returned
ParseResultOf(job, out) ==
    [source |-> job.source,
     err |-> out # "ok",
     msg |-> IF out = "noParser" THEN "no parser available"
             ELSE IF out = "parseError" THEN "parser error" ELSE "none",
     items |-> out = "ok",
     parsed |-> out # "noParser"]

\* processParseJob: the parser lookup, parser.Parse, the ParseResult
ProcessParseJob(r) ==
    /\ ~panicked
    /\ UNCHANGED otherVars
    /\ r.pc = "process"
    /\ \E out \in ParseOutcomes :
         /\ pw' = Put(Take(pw, r),
                      [pc |-> "sendResult", job |-> r.job,
                       res |-> ParseResultOf(r.job, out)])
         /\ stats' = StatsAfterParse(stats, out)
    /\ UNCHANGED <<cfg, ctxCancelled, pools, fw, fetchJobs, fetchResults,
                   parseJobs, parseResults, closed, startPc, stopPc, subPc,
                   accepted, waitCalls, fd, pd, panicked, hist>>

\* select: case c.parseResults <- result
ParseWorkerSendResult(r) ==
    /\ ~panicked
    /\ UNCHANGED otherVars
    /\ r.pc = "sendResult"
    /\ CanSend("parseResults", parseResults)
    /\ parseResults' = Append(parseResults, r.res)
    /\ hist' = [hist EXCEPT !.parseResultsPlaced[r.res.source] = @ + 1]
    /\ pw' = Put(Take(pw, r), [pc |-> "select", job |-> Nil, res |-> Nil])
    /\ UNCHANGED <<cfg, ctxCancelled, pools, fw, fetchJobs, fetchResults,
                   parseJobs, closed, stats, startPc, stopPc, subPc, accepted,
                   waitCalls, fd, pd, panicked>>

\* select: case <-ctx.Done() while sending the result: return
ParseWorkerSendCancelled(r) ==
    /\ ~panicked
    /\ UNCHANGED otherVars
    /\ r.pc = "sendResult"
    /\ CtxDone("parser")
    /\ pw' = Take(pw, r)
    /\ pools' = WgDone("parser")
    /\ UNCHANGED <<cfg, ctxCancelled, fw, fetchJobs, fetchResults, parseJobs,
                   parseResults, closed, stats, startPc, stopPc, subPc, accepted,
                   waitCalls, fd, pd, panicked, hist>>

\* ------------------------------------------------------ Coordinator.Stop
\* WorkerPool.Stop up to wg.Wait(): returns at once when the pool is not
\* running, calls p.cancel() otherwise
WorkerPoolStopBegin(p, joinPc, nextPc) ==
    IF pools[p].isRunning
    THEN /\ pools' = [pools EXCEPT ![p].cancelled = TRUE]
         /\ stopPc' = joinPc
    ELSE /\ pools' = pools
         /\ stopPc' = nextPc

\* WorkerPool.Stop from wg.Wait() on: every worker has returned
WorkerPoolStopJoin(p, nextPc) ==
    /\ pools[p].wg = 0
    /\ pools' = [pools EXCEPT ![p].isRunning = FALSE]
    /\ stopPc' = nextPc

\* a first call of Coordinator.Stop: c.fetcherPool.Stop()
StopFetcherPool ==
    /\ ~panicked
    /\ UNCHANGED otherVars
    /\ stopPc = "idle"
    /\ WorkerPoolStopBegin("fetcher", "joinFetchers", "stopParsers")
    /\ UNCHANGED <<cfg, ctxCancelled, fw, pw, fetchJobs, fetchResults, parseJobs,
                   parseResults, closed, stats, startPc, subPc, accepted,
                   waitCalls, fd, pd, panicked, hist>>

\* a further call of Coordinator.Stop after one that has returned
StopAgain ==
    /\ ~panicked
    /\ UNCHANGED otherVars
    /\ stopPc = "done"
    /\ WorkerPoolStopBegin("fetcher", "joinFetchers", "stopParsers")
    /\ UNCHANGED <<cfg, ctxCancelled, fw, pw, fetchJobs, fetchResults, parseJobs,
                   parseResults, closed, stats, startPc, subPc, accepted,
                   waitCalls, fd, pd, panicked, hist>>

JoinFetcherPool ==
    /\ ~panicked
    /\ UNCHANGED otherVars
    /\ stopPc = "joinFetchers"
    /\ WorkerPoolStopJoin("fetcher", "stopParsers")
    /\ UNCHANGED <<cfg, ctxCancelled, fw, pw, fetchJobs, fetchResults, parseJobs,
                   parseResults, closed, stats, startPc, subPc, accepted,
                   waitCalls, fd, pd, panicked, hist>>

StopParserPool ==
    /\ ~panicked
    /\ UNCHANGED otherVars
    /\ stopPc = "stopParsers"
    /\ WorkerPoolStopBegin("parser", "joinParsers", "closeFetchJobs")
    /\ UNCHANGED <<cfg, ctxCancelled, fw, pw, fetchJobs, fetchResults, parseJobs,
                   parseResults, closed, stats, startPc, subPc, accepted,
                   waitCalls, fd, pd, panicked, hist>>

JoinParserPool ==
    /\ ~panicked
    /\ UNCHANGED otherVars
    /\ stopPc = "joinParsers"
    /\ WorkerPoolStopJoin("parser", "closeFetchJobs")
    /\ UNCHANGED <<cfg, ctxCancelled, fw, pw, fetchJobs, fetchResults, parseJobs,
                   parseResults, closed, stats, startPc, subPc, accepted,
                   waitCalls, fd, pd, panicked, hist>>

\* the channels Stop closes, in order, and its position after each
StopCloses == [closeFetchJobs |-> "fetchJobs", closeParseJobs |-> "parseJobs"]
AfterClose == [closeFetchJobs |-> "closeParseJobs", closeParseJobs |-> "endTime"]

\* close(c.fetchJobs); close(c.parseJobs)
StopClose ==
    /\ ~panicked
    /\ UNCHANGED otherVars
    /\ stopPc \in DOMAIN StopCloses
    /\ StopCloses[stopPc] \notin closed
    /\ closed' = closed \cup {StopCloses[stopPc]}
    /\ stopPc' = AfterClose[stopPc]
    /\ UNCHANGED <<cfg, ctxCancelled, pools, fw, pw, fetchJobs, fetchResults,
                   parseJobs, parseResults, stats, startPc, subPc, accepted,
                   waitCalls, fd, pd, panicked, hist>>

\* close of a channel that is already closed
StopClosePanic ==
    /\ ~panicked
    /\ UNCHANGED otherVars
    /\ stopPc \in DOMAIN StopCloses
    /\ StopCloses[stopPc] \in closed
    /\ panicked' = TRUE
    /\ UNCHANGED <<cfg, ctxCancelled, pools, fw, pw, fetchJobs, fetchResults,
                   parseJobs, parseResults, closed, stats, startPc, stopPc, subPc,
                   accepted, waitCalls, fd, pd, hist>>

\* c.stats.EndTime = time.Now() under c.mu, and Stop returns
StopEndTime ==
    /\ ~panicked
    /\ UNCHANGED otherVars
    /\ stopPc = "endTime"
    /\ stats' = [stats EXCEPT !.EndTimeSet = TRUE]
    /\ stopPc' = "done"
    /\ UNCHANGED <<cfg, ctxCancelled, pools, fw, pw, fetchJobs, fetchResults,
                   parseJobs, parseResults, closed, startPc, subPc, accepted,
                   waitCalls, fd, pd, panicked, hist>>

\* ----------------------------------------- the drain goroutines of Wait
\* for job := range c.fetchResults: the statistics update under c.mu
StatsAfterFetchDrain(s, err) ==
    IF err
    THEN [s EXCEPT !.FailedFetches = @ + 1]
    ELSE [s EXCEPT !.SuccessfulFetches = @ + 1, !.ProcessedSources = @ + 1]

\* for job := range c.parseResults: the statistics update under c.mu
StatsAfterParseDrain(s, err) ==
    IF err
    THEN [s EXCEPT !.FailedParses = @ + 1]
    ELSE [s EXCEPT !.SuccessfulParses = @ + 1]

\* for job := range c.fetchResults: a drain goroutine receives
DrainFetchReceive ==
    /\ ~panicked
    /\ UNCHANGED otherVars
    /\ BagCardinality(fd) < waitCalls
    /\ fetchResults # <<>>
    /\ fd' = Put(fd, Received(fetchResults))
    /\ fetchResults' = AfterReceive(fetchResults)
    /\ hist' = [hist EXCEPT !.drained = TRUE,
                            !.fetchDrains[Received(fetchResults).source] = @ + 1]
    /\ UNCHANGED <<cfg, ctxCancelled, pools, fw, pw, fetchJobs, parseJobs,
                   parseResults, closed, stats, startPc, stopPc, subPc, accepted,
                   waitCalls, pd, panicked>>

\* the loop body: the counters under c.mu
DrainFetchCount(r) ==
    /\ ~panicked
    /\ UNCHANGED otherVars
    /\ stats' = StatsAfterFetchDrain(stats, r.err)
    /\ fd' = Take(fd, r)
    /\ hist' = [hist EXCEPT !.fetchCounts[r.source] = @ + 1]
    /\ UNCHANGED <<cfg, ctxCancelled, pools, fw, pw, fetchJobs, fetchResults,
                   parseJobs, parseResults, closed, startPc, stopPc, subPc,
                   accepted, waitCalls, pd, panicked>>

\* for job := range c.parseResults: a drain goroutine receives
DrainParseReceive ==
    /\ ~panicked
    /\ UNCHANGED otherVars
    /\ BagCardinality(pd) < waitCalls
    /\ parseResults # <<>>
    /\ pd' = Put(pd, Received(parseResults))
    /\ parseResults' = AfterReceive(parseResults)
    /\ hist' = [hist EXCEPT !.drained = TRUE,
                            !.parseDrains[Received(parseResults).source] = @ + 1]
    /\ UNCHANGED <<cfg, ctxCancelled, pools, fw, pw, fetchJobs, fetchResults,
                   parseJobs, closed, stats, startPc, stopPc, subPc, accepted,
                   waitCalls, fd, panicked>>

\* the loop body: the counters under c.mu
DrainParseCount(r) ==
    /\ ~panicked
    /\ UNCHANGED otherVars
    /\ stats' = StatsAfterParseDrain(stats, r.err)
    /\ pd' = Take(pd, r)
    /\ hist' = [hist EXCEPT !.parseCounts[r.source] = @ + 1]
    /\ UNCHANGED <<cfg, ctxCancelled, pools, fw, pw, fetchJobs, fetchResults,
                   parseJobs, parseResults, closed, startPc, stopPc, subPc,
                   accepted, waitCalls, fd, panicked>>

\* --------------- a reader of GetFetchResults() / GetParseResults()
ReadFetchResult ==
    /\ ~panicked
    /\ UNCHANGED otherVars
    /\ fetchResults # <<>>
    /\ fetchResults' = AfterReceive(fetchResults)
    /\ hist' = [hist EXCEPT !.drained = TRUE, !.read = TRUE,
                            !.fetchReads[Received(fetchResults).source] = @ + 1]
    /\ UNCHANGED <<cfg, ctxCancelled, pools, fw, pw, fetchJobs, parseJobs,
                   parseResults, closed, stats, startPc, stopPc, subPc, accepted,
                   waitCalls, fd, pd, panicked>>

ReadParseResult ==
    /\ ~panicked
    /\ UNCHANGED otherVars
    /\ parseResults # <<>>
    /\ parseResults' = AfterReceive(parseResults)
    /\ hist' = [hist EXCEPT !.drained = TRUE, !.read = TRUE,
                            !.parseReads[Received(parseResults).source] = @ + 1]
    /\ UNCHANGED <<cfg, ctxCancelled, pools, fw, pw, fetchJobs, fetchResults,
                   parseJobs, closed, stats, startPc, stopPc, subPc, accepted,
                   waitCalls, fd, pd, panicked>>

\* GetStats: a copy of *c.stats taken under c.mu
GetStats == [f \in DOMAIN stats |-> stats[f]]

\* a caller polls GetStats() and keeps what it returned
GetStatsCall ==
    /\ ~panicked
    /\ snap' = GetStats
    /\ UNCHANGED <<coordVars, poolVars, restVars>>

\* ------------------------------------------------------------ next state
\* a run with cancellation and one shutdown
UndrainedNext ==
    \/ StartFetcherPool
    \/ StartParserPool
    \/ Cancel
    \/ SubmitCall
    \/ SubmitFetchJob
    \/ SubmitPanic
    \/ \E r \in BagToSet(fw) : FetchWorkerCtxDone(r)
    \/ \E r \in BagToSet(fw) : FetchWorkerReceive(r)
    \/ \E r \in BagToSet(fw) : FetchWorkerClosed(r)
    \/ \E r \in BagToSet(fw) : ProcessFetchJob(r)
    \/ \E r \in BagToSet(fw) : FetchWorkerSendResult(r)
    \/ \E r \in BagToSet(fw) : FetchWorkerSendCancelled(r)
    \/ \E r \in BagToSet(fw) : FetchWorkerSendParseJob(r)
    \/ \E r \in BagToSet(fw) : FetchWorkerSendParsePanic(r)
    \/ \E r \in BagToSet(pw) : ParseWorkerCtxDone(r)
    \/ \E r \in BagToSet(pw) : ParseWorkerReceive(r)
    \/ \E r \in BagToSet(pw) : ParseWorkerClosed(r)
    \/ \E r \in BagToSet(pw) : ProcessParseJob(r)
    \/ \E r \in BagToSet(pw) : ParseWorkerSendResult(r)
    \/ \E r \in BagToSet(pw) : ParseWorkerSendCancelled(r)
    \/ StopFetcherPool
    \/ JoinFetcherPool
    \/ StopParserPool
    \/ JoinParserPool
    \/ StopClose
    \/ StopEndTime

Next ==
    \/ UndrainedNext
    \/ ReadFetchResult
    \/ ReadParseResult

Spec == Init /\ [][Next]_vars

\* a run that may be cancelled but is not shut down, with nobody reading the
\* result queues and more sources than the queues and the fetch workers can
\* hold
BackNext ==
    \/ StartFetcherPool
    \/ StartParserPool
    \/ Cancel
    \/ SubmitCall
    \/ SubmitFetchJob
    \/ \E r \in BagToSet(fw) : FetchWorkerCtxDone(r)
    \/ \E r \in BagToSet(fw) : FetchWorkerReceive(r)
    \/ \E r \in BagToSet(fw) : ProcessFetchJob(r)
    \/ \E r \in BagToSet(fw) : FetchWorkerSendResult(r)
    \/ \E r \in BagToSet(fw) : FetchWorkerSendCancelled(r)
    \/ \E r \in BagToSet(fw) : FetchWorkerSendParseJob(r)
    \/ \E r \in BagToSet(pw) : ParseWorkerCtxDone(r)
    \/ \E r \in BagToSet(pw) : ParseWorkerReceive(r)
    \/ \E r \in BagToSet(pw) : ProcessParseJob(r)
    \/ \E r \in BagToSet(pw) : ParseWorkerSendResult(r)
    \/ \E r \in BagToSet(pw) : ParseWorkerSendCancelled(r)

BackSpec == BackInit /\ [][BackNext]_vars

\* a run that may be cancelled but is not shut down, whose result queues are
\* read
CancelNext ==
    \/ BackNext
    \/ ReadFetchResult
    \/ ReadParseResult

CancelSpec == Init /\ [][CancelNext]_vars

\* every operation of the Coordinator: also Wait and its drain goroutines,
\* and further calls of Stop
FullNext ==
    \/ Next
    \/ Wait
    \/ DrainFetchReceive
    \/ \E r \in BagToSet(fd) : DrainFetchCount(r)
    \/ DrainParseReceive
    \/ \E r \in BagToSet(pd) : DrainParseCount(r)
    \/ StopAgain
    \/ StopClosePanic

FullSpec == Init /\ [][FullNext]_vars

\* the goroutine scheduler runs every goroutine that can take a step; Cancel,
\* the calls of Start, Stop, Wait and SubmitFetchJob are the environment's choice
WorkersFair ==
    /\ WF_vars(\E r \in BagToSet(fw) : FetchWorkerCtxDone(r))
    /\ WF_vars(\E r \in BagToSet(fw) : FetchWorkerReceive(r))
    /\ WF_vars(\E r \in BagToSet(fw) : FetchWorkerClosed(r))
    /\ WF_vars(\E r \in BagToSet(fw) : ProcessFetchJob(r))
    /\ WF_vars(\E r \in BagToSet(fw) : FetchWorkerSendResult(r))
    /\ WF_vars(\E r \in BagToSet(fw) : FetchWorkerSendCancelled(r))
    /\ WF_vars(\E r \in BagToSet(fw) : FetchWorkerSendParseJob(r))
    /\ WF_vars(\E r \in BagToSet(pw) : ParseWorkerCtxDone(r))
    /\ WF_vars(\E r \in BagToSet(pw) : ParseWorkerReceive(r))
    /\ WF_vars(\E r \in BagToSet(pw) : ParseWorkerClosed(r))
    /\ WF_vars(\E r \in BagToSet(pw) : ProcessParseJob(r))
    /\ WF_vars(\E r \in BagToSet(pw) : ParseWorkerSendResult(r))
    /\ WF_vars(\E r \in BagToSet(pw) : ParseWorkerSendCancelled(r))

\* a call of Start, Stop or SubmitFetchJob that has begun goes on when it can
CallsFair ==
    /\ WF_vars(StartParserPool)
    /\ WF_vars(SubmitFetchJob)
    /\ WF_vars(SubmitPanic)
    /\ WF_vars(JoinFetcherPool)
    /\ WF_vars(StopParserPool)
    /\ WF_vars(JoinParserPool)
    /\ WF_vars(StopClose)
    /\ WF_vars(StopEndTime)

FairSpec == Spec /\ WorkersFair /\ CallsFair

\* an undisturbed run: no cancellation and no shutdown; every source is
\* submitted, and both result queues are drained by a reader
RunNext ==
    \/ StartFetcherPool
    \/ StartParserPool
    \/ SubmitCall
    \/ SubmitFetchJob
    \/ \E r \in BagToSet(fw) : FetchWorkerReceive(r)
    \/ \E r \in BagToSet(fw) : ProcessFetchJob(r)
    \/ \E r \in BagToSet(fw) : FetchWorkerSendResult(r)
    \/ \E r \in BagToSet(fw) : FetchWorkerSendParseJob(r)
    \/ \E r \in BagToSet(pw) : ParseWorkerReceive(r)
    \/ \E r \in BagToSet(pw) : ProcessParseJob(r)
    \/ \E r \in BagToSet(pw) : ParseWorkerSendResult(r)
    \/ ReadFetchResult
    \/ ReadParseResult

\* Start is called, every source is submitted, the workers are scheduled and
\* the reader of the result queues keeps reading
RunFair ==
    /\ WF_vars(StartFetcherPool)
    /\ WF_vars(StartParserPool)
    /\ WF_vars(SubmitCall)
    /\ WF_vars(SubmitFetchJob)
    /\ WF_vars(\E r \in BagToSet(fw) : FetchWorkerReceive(r))
    /\ WF_vars(\E r \in BagToSet(fw) : ProcessFetchJob(r))
    /\ WF_vars(\E r \in BagToSet(fw) : FetchWorkerSendResult(r))
    /\ WF_vars(\E r \in BagToSet(fw) : FetchWorkerSendParseJob(r))
    /\ WF_vars(\E r \in BagToSet(pw) : ParseWorkerReceive(r))
    /\ WF_vars(\E r \in BagToSet(pw) : ProcessParseJob(r))
    /\ WF_vars(\E r \in BagToSet(pw) : ParseWorkerSendResult(r))
    /\ WF_vars(ReadFetchResult)
    /\ WF_vars(ReadParseResult)

RunSpec == RunInit /\ [][RunNext]_vars /\ RunFair

\* an undisturbed run in which Wait is called, once or more often, while a
\* reader of GetFetchResults() and GetParseResults() reads as well
DrainNext ==
    \/ RunNext
    \/ Wait
    \/ DrainFetchReceive
    \/ \E r \in BagToSet(fd) : DrainFetchCount(r)
    \/ DrainParseReceive
    \/ \E r \in BagToSet(pd) : DrainParseCount(r)

DrainSpec == Init /\ [][DrainNext]_vars

\* an undisturbed run polled by a caller of GetStats()
SnapNext ==
    \/ RunNext
    \/ GetStatsCall

SnapSpec == RunInit /\ [][SnapNext]_vars

\* ------------------------------------------------- a WorkerPool on its own
\* p.mu is held by the thread that is inside Stop at wg.Wait(); Start and the
\* first part of Stop run from Lock to Unlock without blocking
PoolMuHeld == \E t \in PoolThreads : wpPc[t] = "stopWait"

\* Size()
Size == wp.size

\* IsRunning(), for a caller that has got p.mu
IsRunning == wp.isRunning

\* a pool that Start never finds running
AlreadyRunningNever(p) == FALSE

\* if p.isRunning { return }
AlreadyRunning(p) == p.isRunning

\* for i := 0; i < p.size; i++ { workerID := i + 1; go func(id int) ... }
WorkerIds(size) == [i \in 1..size |-> i]

\* a thread calls Start and arrives at p.mu.Lock()
PoolStartCall(t) ==
    /\ wpPc[t] = "idle"
    /\ wpHist.calls < MaxPoolCalls
    /\ wpPc' = [wpPc EXCEPT ![t] = "start"]
    /\ wpHist' = [wpHist EXCEPT !.calls = @ + 1,
                                !.raced = @ \/ \E u \in PoolThreads : wpPc[u] = "start"]
    /\ UNCHANGED <<wpReq, wp, wpWorkers, snap, coordVars, restVars>>

\* Start from Lock to Unlock: a running pool is left alone; an idle one gets a
\* new context, isRunning = true, wg.Add(size) and size goroutines, each
\* calling workerFn(id, p.ctx); Start does not wait for them
PoolStart(t) ==
    /\ wpPc[t] = "start"
    /\ ~PoolMuHeld
    /\ wpPc' = [wpPc EXCEPT ![t] = "idle"]
    /\ IF AlreadyRunning(wp)
       THEN /\ wpHist' = [wpHist EXCEPT !.startReturns = @ + 1,
                                           !.lateStart = @ \/ wpWorkers = {}]
            /\ UNCHANGED <<wp, wpWorkers>>
       ELSE LET ctx == Len(wpHist.launches) + 1
                ids == WorkerIds(wp.size)
            IN /\ wp' = [wp EXCEPT !.ctx = ctx, !.isRunning = TRUE,
                                   !.wg = @ + wp.size]
               /\ wpWorkers' = wpWorkers
                     \cup { [id |-> ids[i], ctx |-> ctx] : i \in DOMAIN ids }
               /\ wpHist' = [wpHist EXCEPT !.launches = Append(@, ids),
                                           !.startReturns = @ + 1]
    /\ UNCHANGED <<wpReq, snap, coordVars, restVars>>

\* a pool that goes back to idle when its last worker returns
PoolWorkerReturnToIdle(w) ==
    /\ w \in wpWorkers
    /\ wpWorkers' = wpWorkers \ {w}
    /\ wp' = [wp EXCEPT !.wg = @ - 1,
                        !.isRunning = IF wpWorkers = {w} THEN FALSE ELSE @]
    /\ UNCHANGED <<wpReq, wpPc, wpHist, snap, coordVars, restVars>>

\* workerFn returns, on its own or because its context is done, and the
\* goroutine runs its deferred p.wg.Done()
PoolWorkerReturn(w) ==
    /\ w \in wpWorkers
    /\ wpWorkers' = wpWorkers \ {w}
    /\ wp' = [wp EXCEPT !.wg = @ - 1]
    /\ UNCHANGED <<wpReq, wpPc, wpHist, snap, coordVars, restVars>>

\* a thread calls Stop and arrives at p.mu.Lock()
PoolStopCall(t) ==
    /\ wpPc[t] = "idle"
    /\ wpHist.calls < MaxPoolCalls
    /\ wpPc' = [wpPc EXCEPT ![t] = "stop"]
    /\ wpHist' = [wpHist EXCEPT !.calls = @ + 1]
    /\ UNCHANGED <<wpReq, wp, wpWorkers, snap, coordVars, restVars>>

\* a Stop that clears isRunning as soon as it has cancelled the context and
\* returns without waiting for the workers
PoolStopNoWait(t) ==
    /\ wpPc[t] = "stop"
    /\ ~PoolMuHeld
    /\ wpPc' = [wpPc EXCEPT ![t] = "idle"]
    /\ wp' = IF ~wp.isRunning THEN wp
             ELSE [wp EXCEPT !.cancelled = @ \cup {wp.ctx}, !.isRunning = FALSE]
    /\ UNCHANGED <<wpReq, wpWorkers, wpHist, snap, coordVars, restVars>>

\* Stop from Lock to wg.Wait(): returns at once when the pool is not running,
\* calls p.cancel() otherwise
PoolStop(t) ==
    /\ wpPc[t] = "stop"
    /\ ~PoolMuHeld
    /\ IF ~wp.isRunning
       THEN /\ wpPc' = [wpPc EXCEPT ![t] = "idle"]
            /\ wp' = wp
       ELSE /\ wpPc' = [wpPc EXCEPT ![t] = "stopWait"]
            /\ wp' = [wp EXCEPT !.cancelled = @ \cup {wp.ctx}]
    /\ UNCHANGED <<wpReq, wpWorkers, wpHist, snap, coordVars, restVars>>

\* a wg.Wait() that returns whatever the counter is
WaitGroupDoneAlways(p) == TRUE

\* p.wg.Wait() returns once the counter is zero
WaitGroupDone(p) == p.wg = 0

\* Stop from the return of wg.Wait() to Unlock
PoolStopWait(t) ==
    /\ wpPc[t] = "stopWait"
    /\ WaitGroupDone(wp)
    /\ wp' = [wp EXCEPT !.isRunning = FALSE]
    /\ wpPc' = [wpPc EXCEPT ![t] = "idle"]
    /\ UNCHANGED <<wpReq, wpWorkers, wpHist, snap, coordVars, restVars>>

\* a thread calls Wait and arrives at p.wg.Wait(), which takes no lock
PoolWaitCall(t) ==
    /\ wpPc[t] = "idle"
    /\ wpHist.calls < MaxPoolCalls
    /\ wpPc' = [wpPc EXCEPT ![t] = "wait"]
    /\ wpHist' = [wpHist EXCEPT !.calls = @ + 1]
    /\ UNCHANGED <<wpReq, wp, wpWorkers, snap, coordVars, restVars>>

\* Wait: p.wg.Wait() returns, and Wait with it
PoolWait(t) ==
    /\ wpPc[t] = "wait"
    /\ WaitGroupDone(wp)
    /\ wpPc' = [wpPc EXCEPT ![t] = "idle"]
    /\ wpHist' = [wpHist EXCEPT !.waits = @ + 1]
    /\ UNCHANGED <<wpReq, wp, wpWorkers, snap, coordVars, restVars>>

PoolNext ==
    \/ \E t \in PoolThreads : PoolStartCall(t)
    \/ \E t \in PoolThreads : PoolStart(t)
    \/ \E w \in wpWorkers : PoolWorkerReturn(w)
    \/ \E t \in PoolThreads : PoolStopCall(t)
    \/ \E t \in PoolThreads : PoolStop(t)
    \/ \E t \in PoolThreads : PoolStopWait(t)
    \/ \E t \in PoolThreads : PoolWaitCall(t)
    \/ \E t \in PoolThreads : PoolWait(t)

\* pools of every requested size, also the sizes NewWorkerPool replaces
PoolInit ==
    /\ NoCoordinator
    /\ NoRules
    /\ NoRobots
    /\ NoFetcher
    /\ NoMain
    /\ NoClient
    /\ \E n \in -1..MaxPoolSize : PoolInitWith(n)

PoolSpec == PoolInit /\ [][PoolNext]_vars

\* -------------------------------------------------- RobotsCache.checkRules
\* strings.HasPrefix, strings.HasSuffix
HasPrefix(s, prefix) ==
    Len(prefix) <= Len(s) /\ SubSeq(s, 1, Len(prefix)) = prefix
HasSuffix(s, suffix) ==
    Len(suffix) <= Len(s) /\ SubSeq(s, Len(s) - Len(suffix) + 1, Len(s)) = suffix

\* a match of a rule without wildcard that accepts every path it prefixes
ExactMatchAnyPrefix(path, rulePath) == HasPrefix(path, rulePath)

\* the match of a rule without wildcard: the path itself or a path below it
ExactMatch(path, rulePath) ==
    path = rulePath \/ HasPrefix(path, rulePath \o <<"/">>)

\* the loop of checkRules from rule i on; longestMatch is the index of the
\* rule held so far, 0 for nil
RECURSIVE checkRulesFrom(_, _, _, _, _)
checkRulesFrom(rules, path, i, longestMatch, longestMatchLength) ==
    IF i > Len(rules) THEN longestMatch
    ELSE LET rulePath == rules[i].Path IN
         IF HasSuffix(rulePath, <<"*">>)
         THEN LET prefix == SubSeq(rulePath, 1, Len(rulePath) - 1) IN
              IF HasPrefix(path, prefix) /\ Len(prefix) > longestMatchLength
              THEN checkRulesFrom(rules, path, i + 1, i, Len(prefix))
              ELSE checkRulesFrom(rules, path, i + 1, longestMatch,
                                  longestMatchLength)
         ELSE IF ExactMatch(path, rulePath) /\ Len(rulePath) > longestMatchLength
              THEN checkRulesFrom(rules, path, i + 1, i, Len(rulePath))
              ELSE checkRulesFrom(rules, path, i + 1, longestMatch,
                                  longestMatchLength)

checkRules(rules, path) ==
    IF Len(rules) = 0 THEN TRUE
    ELSE LET longestMatch == checkRulesFrom(rules, path, 1, 0, -1) IN
         IF longestMatch = 0 THEN TRUE ELSE rules[longestMatch].Allow

CheckRulesCall ==
    /\ ~crOut.done
    /\ crOut' = [done |-> TRUE, allow |-> checkRules(crRules, crPath)]
    /\ UNCHANGED <<crRules, crPath, snap, coordVars, poolVars, robotsVars, fetchVars, mainVars, clientVars>>

RulesInit ==
    /\ NoCoordinator
    /\ NoPool
    /\ NoRobots
    /\ NoFetcher
    /\ NoMain
    /\ NoClient
    /\ \E rules \in RuleLists, path \in RequestPaths : RulesInitWith(rules, path)

RulesNext == CheckRulesCall

RulesSpec == RulesInit /\ [][RulesNext]_vars

\* ---------------------------------------------------------- RobotsCache
\* strings are sequences of characters
Star == <<"*">>
AgentX == <<"X">>
AgentY == <<"Y">>
Private == <<"/", "p", "r", "i", "v", "a", "t", "e">>
PrivateDocs == Private \o <<"/", "d", "o", "c", "s">>
Public == <<"/", "p", "u", "b", "l", "i", "c">>

\* robots.txt documents, each line given as the field and the value that
\* lines 274-291 cut it into
UserAgentLine(agent) == [field |-> "user-agent", value |-> agent]
DisallowLine(path) == [field |-> "disallow", value |-> path]
DocWildcard == << UserAgentLine(Star), DisallowLine(Private) >>
DocBareSection ==
    << UserAgentLine(AgentX), UserAgentLine(Star), DisallowLine(Private) >>
DocOwnSection ==
    << UserAgentLine(Star), DisallowLine(Private),
       UserAgentLine(AgentX), DisallowLine(Public),
       [field |-> "allow", value |-> Private], DisallowLine(<<>>) >>
RobotsDocs == {DocWildcard, DocBareSection, DocOwnSection}
RobotsAgents == {AgentX, AgentY}
RobotsPaths == {PrivateDocs, Public}

\* the Rule a disallow line appends
DisallowRule(value) == [Path |-> value, Allow |-> TRUE]

\* the loop of parseRobotsTxt from line i on; rules is data.Rules
RECURSIVE parseRobotsTxtFrom(_, _, _, _)
parseRobotsTxtFrom(lines, i, currentAgent, rules) ==
    IF i > Len(lines) THEN rules
    ELSE LET field == lines[i].field
             value == lines[i].value
         IN  CASE field = "user-agent" ->
                    parseRobotsTxtFrom(lines, i + 1, value,
                        IF value \in DOMAIN rules THEN rules
                        ELSE rules @@ (value :> <<>>))
               [] field = "disallow" ->
                    parseRobotsTxtFrom(lines, i + 1, currentAgent,
                        IF currentAgent # <<>> /\ value # <<>>
                        THEN [rules EXCEPT ![currentAgent] =
                                  Append(@, DisallowRule(value))]
                        ELSE rules)
               [] OTHER ->
                    parseRobotsTxtFrom(lines, i + 1, currentAgent, rules)

parseRobotsTxt(content) == parseRobotsTxtFrom(content, 1, <<>>, <<>>)

\* IsAllowed, lines 147-160: the rules for this user agent
ResolveRules(Rules_, agent) ==
    IF agent \in DOMAIN Rules_ THEN Rules_[agent]
    ELSE IF Star \in DOMAIN Rules_ THEN Rules_[Star]
    ELSE <<>>

\* IsAllowed, lines 147-178, on the data getRobotsData returned
Verdict(via, doc, Rules_, agent, path) ==
    LET rules == ResolveRules(Rules_, agent) IN
    [via |-> via, doc |-> doc, agent |-> agent, path |-> path, rules |-> rules,
     allow |-> IF Len(rules) = 0 THEN TRUE ELSE checkRules(rules, path),
     err |-> FALSE]

\* an expiry test that never finds the entry fresh
CacheValidNever(entry, now) == FALSE

\* an expiry test that still finds the entry fresh at its expiration
CacheValidAtExpiry(entry, now) == entry # NoEntry /\ now <= entry.Expires

\* getRobotsData, line 191: exists && time.Now().Before(cachedData.Expires)
CacheValid(entry, now) == entry # NoEntry /\ now < entry.Expires

\* a failed fetch answered by refusing the URL
FailClosed(failure) ==
    [via |-> "failed", cause |-> failure, allow |-> FALSE, err |-> FALSE]

\* IsAllowed, lines 141-145: getRobotsData returned an error
FailOpen(failure) ==
    [via |-> "failed", cause |-> failure, allow |-> TRUE, err |-> FALSE]

\* the ways the fetch of robots.txt fails: client.Do returns an error, the
\* status is neither 200 nor 404, io.ReadAll returns an error
FetchFailures == {"transport", "status500", "body"}

\* a cache that keeps r.mu from the look into the map to the store
RobotsMuHeldWhileFetching(call) == call.pc = "fetch"

\* r.mu is held only inside a step: RLock and RUnlock (187-189) enclose the
\* read of the map, Lock and Unlock (228-230, 255-257) the store, and the
\* request is made between them with no lock held
RobotsMuHeld(call) == FALSE

\* caller c can take r.mu: no other call holds it
RobotsMuFree(c) == \A d \in RobotsCallers \ {c} : ~RobotsMuHeld(rcCalls[d])

\* IsAllowed with a nil URL
IsAllowedNil(c) ==
    /\ rcCalls[c].pc = "idle"
    /\ rcHist.calls < MaxRobotsCalls
    /\ rcOut' = [via |-> "nil", allow |-> FALSE, err |-> TRUE]
    /\ rcHist' = [rcHist EXCEPT !.calls = @ + 1]
    /\ UNCHANGED <<rcExpiration, rcCache, rcNow, rcCalls>>
    /\ UNCHANGED <<snap, coordVars, poolVars, ruleVars, fetchVars, mainVars, clientVars>>

\* IsAllowed up to the request for robots.txt: answered from the cache, or
\* the request is issued
IsAllowedLookup(c, agent, path) ==
    /\ rcCalls[c].pc = "idle"
    /\ rcHist.calls < MaxRobotsCalls
    /\ RobotsMuFree(c)
    /\ IF CacheValid(rcCache, rcNow)
       THEN /\ rcOut' = Verdict("cache", rcCache.doc, rcCache.Rules, agent, path)
            /\ rcHist' = [rcHist EXCEPT !.calls = @ + 1]
            /\ UNCHANGED rcCalls
       ELSE /\ rcCalls' = [rcCalls EXCEPT ![c] =
                              [pc |-> "fetch", agent |-> agent, path |-> path]]
            /\ rcHist' = [rcHist EXCEPT !.calls = @ + 1, !.fetches = @ + 1]
            /\ UNCHANGED rcOut
    /\ UNCHANGED <<rcExpiration, rcCache, rcNow>>
    /\ UNCHANGED <<snap, coordVars, poolVars, ruleVars, fetchVars, mainVars, clientVars>>

\* the request fails: IsAllowed returns, the cache is not touched
IsAllowedFetchFailed(c, failure) ==
    /\ rcCalls[c].pc = "fetch"
    /\ rcOut' = FailOpen(failure)
    /\ rcCalls' = [rcCalls EXCEPT ![c] = [pc |-> "idle"]]
    /\ UNCHANGED <<rcExpiration, rcCache, rcNow, rcHist>>
    /\ UNCHANGED <<snap, coordVars, poolVars, ruleVars, fetchVars, mainVars, clientVars>>

\* the request is answered 404: an empty RobotsData is stored and used
IsAllowedNotFound(c) ==
    /\ rcCalls[c].pc = "fetch"
    /\ RobotsMuFree(c)
    /\ rcCache' = [Rules |-> <<>>, Expires |-> rcNow + rcExpiration, doc |-> <<>>]
    /\ rcOut' = Verdict("status404", <<>>, <<>>, rcCalls[c].agent, rcCalls[c].path)
    /\ rcCalls' = [rcCalls EXCEPT ![c] = [pc |-> "idle"]]
    /\ UNCHANGED <<rcExpiration, rcNow, rcHist>>
    /\ UNCHANGED <<snap, coordVars, poolVars, ruleVars, fetchVars, mainVars, clientVars>>

\* the request is answered 200 with a document: it is parsed, stored and
\* used (doc, the document an entry was parsed from, is kept for reference)
IsAllowedFetched(c, doc) ==
    /\ rcCalls[c].pc = "fetch"
    /\ RobotsMuFree(c)
    /\ LET Rules_ == parseRobotsTxt(doc) IN
       /\ rcCache' = [Rules |-> Rules_, Expires |-> rcNow + rcExpiration,
                      doc |-> doc]
       /\ rcOut' = Verdict("status200", doc, Rules_, rcCalls[c].agent,
                           rcCalls[c].path)
    /\ rcCalls' = [rcCalls EXCEPT ![c] = [pc |-> "idle"]]
    /\ UNCHANGED <<rcExpiration, rcNow, rcHist>>
    /\ UNCHANGED <<snap, coordVars, poolVars, ruleVars, fetchVars, mainVars, clientVars>>

\* an hour passes
RobotsTick ==
    /\ rcNow < MaxTime
    /\ rcNow' = rcNow + 1
    /\ UNCHANGED <<rcExpiration, rcCache, rcCalls, rcOut, rcHist>>
    /\ UNCHANGED <<snap, coordVars, poolVars, ruleVars, fetchVars, mainVars, clientVars>>

RobotsInit ==
    /\ NoCoordinator
    /\ NoPool
    /\ NoRules
    /\ NoFetcher
    /\ NoMain
    /\ NoClient
    /\ \E expiration \in -1..MaxExpiration : RobotsInitWith(expiration)

RobotsNext ==
    \/ \E c \in RobotsCallers : IsAllowedNil(c)
    \/ \E c \in RobotsCallers, agent \in RobotsAgents, path \in RobotsPaths :
           IsAllowedLookup(c, agent, path)
    \/ \E c \in RobotsCallers, failure \in FetchFailures :
           IsAllowedFetchFailed(c, failure)
    \/ \E c \in RobotsCallers : IsAllowedNotFound(c)
    \/ \E c \in RobotsCallers, doc \in RobotsDocs : IsAllowedFetched(c, doc)
    \/ RobotsTick

RobotsSpec == RobotsInit /\ [][RobotsNext]_vars

\* ---------------------------------------------------------------- Fetcher
\* Fetcher.Fetch as the fetch workers' processFetchJob calls it, for one
\* source.  The workers differ in nothing a Fetch call reads, so their calls
\* are kept as a bag of call states.  The TokenBucket and RateLimiter.Wait are modelled from their
\* contract: take() refills and then consumes one token if there is one;
\* refill adds elapsedSeconds * rate tokens, truncated, capped at capacity,
\* and moves lastRefill only when it added a token; Wait creates the host's
\* bucket on first use, polls take() with a backoff between the attempts and
\* gives up with the context's error when the context is done during the
\* backoff.  The rate is one token every `period` seconds.
FetchWorkers == {"w1", "w2"}

IdleCall == [pc |-> "idle", stage |-> "none", verdict |-> "none", sent |-> FALSE]
\* no worker has built a FetchResult yet
NoResult == [err |-> "pending"]
\* RateLimiter.buckets has no bucket for the host
NoBucket == [capacity |-> 0]
\* no take() has found the bucket full yet
NoBurst == [at |-> -1]

FetchInitWith(src) ==
    /\ ftSrc = src
    /\ ftCalls = Copies(IdleCall, Cardinality(FetchWorkers))
    /\ ftOut = NoResult
    /\ ftRobots = FALSE
    /\ ftBucket = NoBucket
    /\ ftNow = 0
    /\ ftCtxDone = FALSE
    /\ ftStats = [ProcessedSources |-> 0, SuccessfulFetches |-> 0, FailedFetches |-> 0]
    /\ ftHist = [calls |-> 0, granted |-> 0, created |-> -1, burst |-> NoBurst]

Min(a, b) == IF a < b THEN a ELSE b

\* a new bucket is full
NewTokenBucket(capacity, period, now) ==
    [capacity |-> capacity, tokens |-> capacity, period |-> period, lastRefill |-> now]

\* a refill that adds the new tokens without a cap
refillUncapped(b, now) ==
    LET newTokens == (now - b.lastRefill) \div b.period
    IN IF newTokens > 0
       THEN [b EXCEPT !.tokens = @ + newTokens, !.lastRefill = now]
       ELSE b

\* TokenBucket.refill
refill(b, now) ==
    LET newTokens == (now - b.lastRefill) \div b.period
    IN IF newTokens > 0
       THEN [b EXCEPT !.tokens = Min(b.capacity, @ + newTokens), !.lastRefill = now]
       ELSE b

\* a take that is granted whether or not there is a token
takeUnchecked(b, now) ==
    LET r == refill(b, now)
    IN [ok |-> TRUE, bucket |-> [r EXCEPT !.tokens = IF @ > 0 THEN @ - 1 ELSE 0]]

\* TokenBucket.take, under the bucket's lock: the answer and the bucket after it
take(b, now) ==
    LET r == refill(b, now)
    IN IF r.tokens > 0 THEN [ok |-> TRUE, bucket |-> [r EXCEPT !.tokens = @ - 1]]
       ELSE [ok |-> FALSE, bucket |-> r]

\* RateLimiter.Wait under the limiter's lock: the host's bucket, created on
\* first use
ResolveBucket == IF ftBucket = NoBucket
                 THEN NewTokenBucket(ftSrc.capacity, ftSrc.period, ftNow)
                 ELSE ftBucket

\* the takes made since a take() last found the bucket full, while no time
\* has passed: attempts (counted up to capacity + 1) and grants
BurstAfter(burst, b, ok, now) ==
    IF refill(b, now).tokens = b.capacity THEN [at |-> now, n |-> 1, ok |-> 1]
    ELSE IF burst # NoBurst /\ burst.at = now
    THEN [burst EXCEPT !.n = Min(@ + 1, b.capacity + 1), !.ok = IF ok THEN @ + 1 ELSE @]
    ELSE IF ok THEN NoBurst ELSE burst

\* what a step of a Fetch call leads to: the call goes on, or Fetch returns
GoOn(call) == [kind |-> "goOn", call |-> call]
Return(call, content, err) ==
    [kind |-> "return",
     res |-> [content |-> content, err |-> err, verdict |-> call.verdict,
              sent |-> call.sent]]

\* checkRobotsTxt, its last lines: group.Test(path) and the answer built from it
RobotsTest(denies) ==
    IF denies THEN [allowed |-> FALSE, err |-> TRUE, verdict |-> "deny"]
    ELSE [allowed |-> TRUE, err |-> FALSE, verdict |-> "allow"]

\* checkRobotsTxt: the answer when the robots document could not be obtained
RobotsError == [allowed |-> TRUE, err |-> TRUE, verdict |-> "error"]
\* checkRobotsTxt: the answer to a status of 400 or more
RobotsAbsent == [allowed |-> TRUE, err |-> FALSE, verdict |-> "absent"]

\* Fetch, after checkRobotsTxt has answered: an error is logged and the call
\* goes on, a refusal without error ends it
AfterRobots(call, answer) ==
    LET c == [call EXCEPT !.verdict = answer.verdict]
    IN IF answer.err THEN GoOn([c EXCEPT !.pc = "waitEnter", !.stage = "content"])
       ELSE IF ~answer.allowed THEN Return(c, 0, "disallowed")
       ELSE GoOn([c EXCEPT !.pc = "waitEnter", !.stage = "content"])

\* a Fetch that goes on to the request whatever Wait returned
WaitGateOpen(err) == FALSE

\* Fetch: if err != nil after f.rateLimiter.Wait
WaitGate(err) == err

\* the caller of Wait after Wait has returned: checkRobotsTxt answers with the
\* error or sends the robots.txt request; Fetch returns the error or sends
\* the content request
AfterWait(call, err) ==
    IF call.stage = "robots"
    THEN IF err THEN AfterRobots(call, RobotsError)
         ELSE GoOn([call EXCEPT !.pc = "do"])
    ELSE IF WaitGate(err) THEN Return(call, 0, "rate")
         ELSE GoOn([call EXCEPT !.pc = "do", !.sent = TRUE])

\* processFetchJob around Fetch: the FetchResult and the statistics
Proceed(r, o) ==
    IF o.kind = "return"
    THEN /\ ftCalls' = Put(Take(ftCalls, r), IdleCall)
         /\ ftOut' = o.res
         /\ ftStats' = StatsAfterFetch(ftStats, o.res.err # "none")
    ELSE /\ ftCalls' = Put(Take(ftCalls, r), o.call)
         /\ UNCHANGED <<ftOut, ftStats>>

\* Fetch: url.Parse, and the choice between checkRobotsTxt and Wait
FetchCall(r) ==
    /\ r.pc = "idle"
    /\ ftHist.calls < MaxFetchCalls
    /\ ftHist' = [ftHist EXCEPT !.calls = @ + 1]
    /\ Proceed(r, IF ftSrc.badURL THEN Return(IdleCall, 0, "url")
                  ELSE IF ftSrc.respect THEN GoOn([IdleCall EXCEPT !.pc = "robots"])
                  ELSE GoOn([IdleCall EXCEPT !.pc = "waitEnter", !.stage = "content"]))
    /\ UNCHANGED <<ftSrc, ftRobots, ftBucket, ftNow, ftCtxDone>>
    /\ UNCHANGED <<snap, coordVars, poolVars, ruleVars, robotsVars, mainVars, clientVars>>

\* checkRobotsTxt: the look into f.robotsCache under the read lock
CheckRobotsTxt(r) ==
    /\ r.pc = "robots"
    /\ Proceed(r, IF ftRobots THEN AfterRobots(r, RobotsTest(ftSrc.denies))
                  ELSE GoOn([r EXCEPT !.pc = "waitEnter", !.stage = "robots"]))
    /\ UNCHANGED <<ftSrc, ftRobots, ftBucket, ftNow, ftCtxDone, ftHist>>
    /\ UNCHANGED <<snap, coordVars, poolVars, ruleVars, robotsVars, mainVars, clientVars>>

\* RateLimiter.Wait: the bucket of the host is looked up or created
WaitEnter(r) ==
    /\ r.pc = "waitEnter"
    /\ ftBucket' = ResolveBucket
    /\ ftHist' = [ftHist EXCEPT !.created = IF ftBucket = NoBucket THEN ftNow ELSE @]
    /\ Proceed(r, GoOn([r EXCEPT !.pc = "waitTake"]))
    /\ UNCHANGED <<ftSrc, ftRobots, ftNow, ftCtxDone>>
    /\ UNCHANGED <<snap, coordVars, poolVars, ruleVars, robotsVars, mainVars, clientVars>>

\* a Wait that polls on after the context is done
CanPollAlways(r) == r.pc \in {"waitTake", "waitSleep"}

\* RateLimiter.Wait: the call is about to take(), for the first time or after
\* a backoff during which the context was not done
CanPoll(r) ==
    \/ r.pc = "waitTake"
    \/ r.pc = "waitSleep" /\ ~ftCtxDone

\* RateLimiter.Wait: one take() on the host's bucket
WaitPoll(r) ==
    /\ CanPoll(r)
    /\ LET t == take(ftBucket, ftNow)
       IN /\ ftBucket' = t.bucket
          /\ ftHist' = [ftHist EXCEPT
                          !.granted = IF t.ok THEN @ + 1 ELSE @,
                          !.burst = BurstAfter(@, ftBucket, t.ok, ftNow)]
          /\ Proceed(r, IF t.ok THEN AfterWait(r, FALSE)
                        ELSE GoOn([r EXCEPT !.pc = "waitSleep"]))
    /\ UNCHANGED <<ftSrc, ftRobots, ftNow, ftCtxDone>>
    /\ UNCHANGED <<snap, coordVars, poolVars, ruleVars, robotsVars, mainVars, clientVars>>

\* RateLimiter.Wait: the context is done during the backoff
WaitCancelled(r) ==
    /\ r.pc = "waitSleep"
    /\ ftCtxDone
    /\ Proceed(r, AfterWait(r, TRUE))
    /\ UNCHANGED <<ftSrc, ftRobots, ftBucket, ftNow, ftCtxDone, ftHist>>
    /\ UNCHANGED <<snap, coordVars, poolVars, ruleVars, robotsVars, mainVars, clientVars>>

\* what f.client.Do and the reading of the response can come to
RobotsResponses == {"transport", "status400", "unparsable", "ok"}

\* the status codes a content response carries: the codes on both sides of
\* the two ends of 200..299
Statuses == {199, 200, 299, 300}

\* a status check that lets 300 through
StatusOKThrough300(status) == ~(status < 200 \/ status > 300)

\* Fetch: if resp.StatusCode < 200 || resp.StatusCode >= 300 { return nil, ... }
StatusOK(status) == ~(status < 200 \/ status >= 300)

\* what f.client.Do and io.ReadAll come to: no response, or a response with
\* a status whose body can or cannot be read
ContentResponses ==
    {[kind |-> "transport", status |-> 0]}
        \cup [kind : {"read", "unreadable"}, status : Statuses]

\* checkRobotsTxt: the robots.txt request, its parsing, the cache entry
RobotsDo(r, response) ==
    /\ r.pc = "do"
    /\ r.stage = "robots"
    /\ ftRobots' = IF response = "ok" THEN TRUE ELSE ftRobots
    /\ Proceed(r, AfterRobots(r,
                              IF response = "ok" THEN RobotsTest(ftSrc.denies)
                              ELSE IF response = "status400" THEN RobotsAbsent
                              ELSE RobotsError))
    /\ UNCHANGED <<ftSrc, ftBucket, ftNow, ftCtxDone, ftHist>>
    /\ UNCHANGED <<snap, coordVars, poolVars, ruleVars, robotsVars, mainVars, clientVars>>

\* Fetch from f.client.Do on: a transport error, a status outside 200..299
\* and an unreadable body all end the call with nil content and an error
\* about the request; otherwise the Content carries resp.StatusCode
ContentOutcome(call, response) ==
    IF response.kind = "transport" THEN Return(call, 0, "request")
    ELSE IF ~StatusOK(response.status) THEN Return(call, 0, "request")
    ELSE IF response.kind = "unreadable" THEN Return(call, 0, "request")
    ELSE Return(call, response.status, "none")

\* Fetch: the content request, the status check, the reading of the body
ContentDo(r, response) ==
    /\ r.pc = "do"
    /\ r.stage = "content"
    /\ Proceed(r, ContentOutcome(r, response))
    /\ UNCHANGED <<ftSrc, ftRobots, ftBucket, ftNow, ftCtxDone, ftHist>>
    /\ UNCHANGED <<snap, coordVars, poolVars, ruleVars, robotsVars, mainVars, clientVars>>

\* the context of the run is cancelled, or the request timeout of
\* processFetchJob expires
FetchCancel ==
    /\ ~ftCtxDone
    /\ ftCtxDone' = TRUE
    /\ UNCHANGED <<ftSrc, ftCalls, ftOut, ftRobots, ftBucket, ftNow, ftStats, ftHist>>
    /\ UNCHANGED <<snap, coordVars, poolVars, ruleVars, robotsVars, mainVars, clientVars>>

FetchTick ==
    /\ ftNow < MaxFetchTime
    /\ ftNow' = ftNow + 1
    /\ UNCHANGED <<ftSrc, ftCalls, ftOut, ftRobots, ftBucket, ftCtxDone, ftStats, ftHist>>
    /\ UNCHANGED <<snap, coordVars, poolVars, ruleVars, robotsVars, mainVars, clientVars>>

\* the sources and rate limits a Fetcher is given: a URL that does not parse,
\* a source that does not respect robots.txt, and sources that do and whose
\* path the host's robots.txt allows or denies
FetchSources ==
    { src \in [badURL : BOOLEAN, respect : BOOLEAN, denies : BOOLEAN,
               capacity : 1..MaxCapacity, period : 1..MaxPeriod] :
        /\ src.badURL => ~src.respect /\ src.capacity = 1 /\ src.period = 1
        /\ src.denies => src.respect }

FetchInit ==
    /\ NoCoordinator
    /\ NoPool
    /\ NoRules
    /\ NoRobots
    /\ NoMain
    /\ NoClient
    /\ \E src \in FetchSources : FetchInitWith(src)

FetchNext ==
    \/ \E r \in BagToSet(ftCalls) : FetchCall(r)
    \/ \E r \in BagToSet(ftCalls) : CheckRobotsTxt(r)
    \/ \E r \in BagToSet(ftCalls) : WaitEnter(r)
    \/ \E r \in BagToSet(ftCalls) : WaitPoll(r)
    \/ \E r \in BagToSet(ftCalls) : WaitCancelled(r)
    \/ \E r \in BagToSet(ftCalls), response \in RobotsResponses : RobotsDo(r, response)
    \/ \E r \in BagToSet(ftCalls), response \in ContentResponses : ContentDo(r, response)
    \/ FetchCancel
    \/ FetchTick

FetchSpec == FetchInit /\ [][FetchNext]_vars

\* ------------------------------------------------------------ http.Client
\* The client fetcher.New builds, on its own.  client.Do sends the request
\* and, for every response that is a redirect, calls CheckRedirect(req, via)
\* with the requests made so far (oldest first) before it sends the next
\* request; an error from CheckRedirect ends Do with that error.
NoRequest == [pc |-> "idle"]
\* no client.Do call has returned
NoResponse == [err |-> "pending"]

ClientInitWith(maxRedirects) ==
    /\ hcMaxRedirects = maxRedirects
    /\ hcReq = NoRequest
    /\ hcOut = NoResponse

\* CheckRedirect: if len(via) >= cfg.App.HTTP.MaxRedirects { return error }
CheckRedirect(lenVia, maxRedirects) == lenVia >= maxRedirects

\* client.Do is called; the servers will answer with `chain` redirects and
\* then with the final response; the first request is sent
ClientDo(chain) ==
    /\ hcReq = NoRequest
    /\ hcReq' = [pc |-> "sent", chain |-> chain, via |-> 1]
    /\ UNCHANGED <<hcMaxRedirects, hcOut>>
    /\ UNCHANGED <<snap, coordVars, poolVars, ruleVars, robotsVars, fetchVars, mainVars>>

\* the response to the last request arrives: a redirect is followed when
\* CheckRedirect returns nil and ends Do with its error otherwise; the final
\* response ends Do without error
ClientResponse ==
    /\ hcReq # NoRequest
    /\ IF hcReq.via <= hcReq.chain
       THEN IF CheckRedirect(hcReq.via, hcMaxRedirects)
            THEN /\ hcOut' = [err |-> "stopped", chain |-> hcReq.chain,
                              followed |-> hcReq.via - 1]
                 /\ hcReq' = NoRequest
            ELSE /\ hcReq' = [hcReq EXCEPT !.via = @ + 1]
                 /\ hcOut' = hcOut
       ELSE /\ hcOut' = [err |-> "none", chain |-> hcReq.chain,
                         followed |-> hcReq.via - 1]
            /\ hcReq' = NoRequest
    /\ UNCHANGED hcMaxRedirects
    /\ UNCHANGED <<snap, coordVars, poolVars, ruleVars, robotsVars, fetchVars, mainVars>>

ClientInit ==
    /\ NoCoordinator
    /\ NoPool
    /\ NoRules
    /\ NoRobots
    /\ NoFetcher
    /\ NoMain
    /\ \E maxRedirects \in 0..MaxRedirectsLimit : ClientInitWith(maxRedirects)

ClientNext ==
    \/ \E chain \in 0..MaxChain : ClientDo(chain)
    \/ ClientResponse

ClientSpec == ClientInit /\ [][ClientNext]_vars

\* ------------------------------------------------------------------- main
\* cmd/aggregator: main up to the start of the run, and config.LoadConfig.
\* A file is missing, unreadable, not YAML, or parsed; a parsed file passes
\* or fails the checks of Validate that do not count its sources, and
\* declares so many sources.
NoFile == [state |-> "none"]
Files ==
    {[state |-> "missing"], [state |-> "unreadable"], [state |-> "malformed"]}
    \cup [state : {"parsed"}, valid : BOOLEAN, sources : 0..MaxSources]

\* the flags of a run: -version, -config and the file it names, -sources
\* (which may be empty) and the file it names
MainArgs ==
    { a \in [version : BOOLEAN, config : Files, sourcesPath : {"", "sources.yaml"},
             sources : Files \cup {NoFile}] :
        /\ a.sourcesPath = "" <=> a.sources = NoFile
        /\ a.version => (a.config = [state |-> "missing"] /\ a.sourcesPath = "") }

NoConfig == [sources |-> -1]
\* DefaultConfig() declares no sources
DefaultConfig == [sources |-> 0]
NotLoaded == [cfg |-> NoConfig, err |-> "not called"]

\* a LoadSources that takes a missing file for an empty one
LoadSourcesLenient(file) ==
    IF file.state = "missing" THEN [sources |-> 0, err |-> "none"]
    ELSE IF file.state = "unreadable"
    THEN [sources |-> -1, err |-> "error reading sources file"]
    ELSE IF file.state = "malformed"
    THEN [sources |-> -1, err |-> "error parsing sources file"]
    ELSE IF file.sources = 0 \/ ~file.valid
    THEN [sources |-> -1, err |-> "invalid sources configuration"]
    ELSE [sources |-> file.sources, err |-> "none"]

\* config.LoadSources
LoadSources(file) ==
    IF file.state = "missing" THEN [sources |-> -1, err |-> "sources file not found"]
    ELSE IF file.state = "unreadable"
    THEN [sources |-> -1, err |-> "error reading sources file"]
    ELSE IF file.state = "malformed"
    THEN [sources |-> -1, err |-> "error parsing sources file"]
    ELSE IF file.sources = 0 \/ ~file.valid
    THEN [sources |-> -1, err |-> "invalid sources configuration"]
    ELSE [sources |-> file.sources, err |-> "none"]

\* config.LoadConfig
LoadConfig(configFile, sourcesPath, sourcesFile) ==
    IF configFile.state = "missing"
    THEN [cfg |-> DefaultConfig, err |-> "config file not found"]
    ELSE IF configFile.state = "unreadable"
    THEN [cfg |-> NoConfig, err |-> "error reading config file"]
    ELSE IF configFile.state = "malformed"
    THEN [cfg |-> NoConfig, err |-> "error parsing config file"]
    ELSE LET loaded == IF sourcesPath # "" THEN LoadSources(sourcesFile)
                       ELSE [sources |-> configFile.sources, err |-> "none"]
         IN IF loaded.err # "none"
            THEN [cfg |-> NoConfig, err |-> "error loading sources configuration"]
            ELSE IF ~configFile.valid
            THEN [cfg |-> NoConfig, err |-> "invalid configuration"]
            ELSE [cfg |-> [sources |-> loaded.sources], err |-> "none"]

MainInitWith(args) ==
    /\ mnArgs = args
    /\ mnPc = "flags"
    /\ mnLoaded = NotLoaded
    /\ mnCoord = [created |-> FALSE, started |-> FALSE]

\* main: flag.Parse and -version, which prints and exits
MainFlags ==
    /\ mnPc = "flags"
    /\ mnPc' = IF mnArgs.version THEN "exit" ELSE "load"
    /\ UNCHANGED <<mnArgs, mnLoaded, mnCoord>>
    /\ UNCHANGED <<snap, coordVars, poolVars, ruleVars, robotsVars, fetchVars, clientVars>>

\* main: config.LoadConfig, and log.Fatalf if it returned an error
MainLoadConfig ==
    /\ mnPc = "load"
    /\ mnLoaded' = LoadConfig(mnArgs.config, mnArgs.sourcesPath, mnArgs.sources)
    /\ mnPc' = IF mnLoaded'.err # "none" THEN "fatal" ELSE "new"
    /\ UNCHANGED <<mnArgs, mnCoord>>
    /\ UNCHANGED <<snap, coordVars, poolVars, ruleVars, robotsVars, fetchVars, clientVars>>

\* main: coordinator.New and aggregator.New, either of which may fail
MainNew(ok) ==
    /\ mnPc = "new"
    /\ mnCoord' = [mnCoord EXCEPT !.created = ok]
    /\ mnPc' = IF ok THEN "run" ELSE "fatal"
    /\ UNCHANGED <<mnArgs, mnLoaded>>
    /\ UNCHANGED <<snap, coordVars, poolVars, ruleVars, robotsVars, fetchVars, clientVars>>

\* main: agg.Run, which starts the Coordinator and with it the two pools
MainRun ==
    /\ mnPc = "run"
    /\ mnCoord' = [mnCoord EXCEPT !.started = TRUE]
    /\ mnPc' = "running"
    /\ UNCHANGED <<mnArgs, mnLoaded>>
    /\ UNCHANGED <<snap, coordVars, poolVars, ruleVars, robotsVars, fetchVars, clientVars>>

MainInit ==
    /\ NoCoordinator
    /\ NoPool
    /\ NoRules
    /\ NoRobots
    /\ NoFetcher
    /\ NoClient
    /\ \E args \in MainArgs : MainInitWith(args)

MainNext ==
    \/ MainFlags
    \/ MainLoadConfig
    \/ \E ok \in BOOLEAN : MainNew(ok)
    \/ MainRun

MainSpec == MainInit /\ [][MainNext]_vars

\* ----------------------------------------------------------------- claims
\* the FetchResults without error placed on the fetch-result queue so far
OkResults == { r \in hist.results : ~r.err }
FailedResults == { r \in hist.results : r.err }

RECURSIVE SumOver(_, _)
SumOver(f, S) == IF S = {} THEN 0
                 ELSE LET x == CHOOSE y \in S : TRUE IN f[x] + SumOver(f, S \ {x})

\* every submitted job has been taken off the job queues and worked off
AllProcessed ==
    /\ startPc = "started"
    /\ accepted = cfg.Sources
    /\ subPc = "idle"
    /\ fetchJobs = <<>>
    /\ parseJobs = <<>>
    /\ \A r \in BagToSet(fw) : r.pc = "select"
    /\ \A r \in BagToSet(pw) : r.pc = "select"

\* no cancellation and no shutdown so far
Undisturbed == ~ctxCancelled /\ stopPc = "idle" /\ ~panicked

\* both result queues are empty and every drained result has been counted
ResultsDrained ==
    /\ fetchResults = <<>>
    /\ parseResults = <<>>
    /\ fd = EmptyBag
    /\ pd = EmptyBag

\* C1: in a run without cancellation whose result queues are drained, no job
\* is dequeued twice or answered twice, a FetchResult is placed only for a job
\* a worker has dequeued, and eventually every one of the N submitted jobs has
\* been dequeued once and has exactly one FetchResult on the fetch-result queue.
C1_ExactlyNFetchResults ==
    /\ [](\A j \in Jobs : /\ hist.dequeued[j] <= 1
                          /\ hist.fetchResultsPlaced[j] <= hist.dequeued[j]
                          /\ (hist.dequeued[j] = 1 => j <= accepted))
    /\ <>(\A j \in Jobs : hist.dequeued[j] = 1 /\ hist.fetchResultsPlaced[j] = 1)

\* C1 witness: all N jobs answered, by successes and failures alike
C1_Witness ==
    /\ \A j \in Jobs : hist.fetchResultsPlaced[j] = 1
    /\ OkResults # {}
    /\ FailedResults # {}
    /\ cfg.MaxFetchers >= 2

\* C2: in a run without cancellation, a ParseJob is placed at most once per
\* source and only for a source whose FetchResult carried no error, a
\* ParseResult only for a placed ParseJob; and once everything is worked off
\* the ParseResults placed are as many as the FetchResults without error.
C2_ParseResultsMatchSuccesses ==
    /\ \A j \in Jobs :
         /\ hist.parseJobsPlaced[j] <= 1
         /\ hist.parseResultsPlaced[j] <= hist.parseJobsPlaced[j]
         /\ (hist.parseJobsPlaced[j] = 1 => \E r \in OkResults : r.source = j)
    /\ \A r \in FailedResults : hist.parseJobsPlaced[r.source] = 0
    /\ AllProcessed =>
         /\ SumOver(hist.parseResultsPlaced, Jobs) = Cardinality(OkResults)
         /\ SumOver(hist.parseJobsPlaced, Jobs) = Cardinality(OkResults)
         /\ SumOver(hist.fetchResultsPlaced, Jobs) = cfg.Sources

\* C2 witness: everything worked off, with a failed and a successful fetch
C2_Witness ==
    /\ AllProcessed
    /\ ResultsDrained
    /\ FailedResults # {}
    /\ OkResults # {}

\* C3: once every submitted job is worked off and the result queues are
\* drained, by the drain goroutines of Wait or by a reader, the snapshot of
\* GetStats has ProcessedSources = SuccessfulFetches + FailedFetches.
C3_ProcessedSourcesIsSum ==
    (Undisturbed /\ AllProcessed /\ ResultsDrained /\ hist.drained)
        => GetStats.ProcessedSources
             = GetStats.SuccessfulFetches + GetStats.FailedFetches

\* C4: each outcome is counted once: after the N jobs are worked off and the
\* result queues drained through Wait alone, SuccessfulFetches + FailedFetches
\* is N and SuccessfulParses + FailedParses is the number of ParseResults.
C4_OutcomesCountedOnce ==
    (Undisturbed /\ AllProcessed /\ ResultsDrained /\ waitCalls > 0 /\ ~hist.read)
        => /\ GetStats.SuccessfulFetches + GetStats.FailedFetches = cfg.Sources
           /\ GetStats.SuccessfulParses + GetStats.FailedParses
                = SumOver(hist.parseResultsPlaced, Jobs)

\* the FetchResult a ParseJob was made from
ResultOf(pj) == [source |-> pj.source, content |-> pj.content, err |-> FALSE]

\* the ParseJobs on the parse-job queue and in the hands of the parse workers
ParseJobsAlive ==
    { parseJobs[i] : i \in 1..Len(parseJobs) }
        \cup { r.job : r \in { w \in BagToSet(pw) : w.pc # "select" } }

\* C5: every ParseJob placed on the parse-job queue carries the source and the
\* non-nil content of a FetchResult without error that was placed before it,
\* and no ParseJob is ever placed for a source whose fetch failed.
C5_ParseJobOnlyForSuccess ==
    /\ \A pj \in ParseJobsAlive :
         /\ pj.content # 0
         /\ pj.content = pj.source
         /\ ResultOf(pj) \in hist.results
    /\ \A j \in Jobs :
         hist.parseJobsPlaced[j] > 0 => \E r \in OkResults : r.source = j
    /\ \A r \in FailedResults : hist.parseJobsPlaced[r.source] = 0

\* C5 witness: a ParseJob is on the queue while another source's fetch failed
C5_Witness ==
    /\ parseJobs # <<>>
    /\ FailedResults # {}
    /\ \E r \in FailedResults : r.source # parseJobs[1].source

\* Stop is inside WorkerPool.Stop of a running fetcher pool, after Start has
\* returned and after the top-level context was cancelled
StoppingAfterCancel ==
    /\ ctxCancelled
    /\ startPc = "started"
    /\ stopPc = "joinFetchers"

\* Stop has returned and every worker goroutine of both pools has returned
StopReturned == stopPc = "done" /\ fw = EmptyBag /\ pw = EmptyBag

\* C6: after cancellation mid-run a call of Stop eventually returns with every
\* worker of both pools returned, whatever the workers are blocked on.
C6_StopReturnsAfterCancel == StoppingAfterCancel ~> StopReturned

\* the workers do return and Stop goes on to the end, unless the process dies
\* of a send on a channel Stop has closed
StopReturnsUnlessPanic == StoppingAfterCancel ~> (StopReturned \/ panicked)

\* C7: once the top-level context is cancelled no worker takes a further job
\* off the fetch-job queue or the parse-job queue.
C7_NoDequeueAfterCancel ==
    [][ctxCancelled => /\ Len(fetchJobs') >= Len(fetchJobs)
                       /\ Len(parseJobs') >= Len(parseJobs)]_vars

\* C8: a SubmitFetchJob call blocked on a full fetch-job queue comes to an end
\* once the top-level context is cancelled: it returns, or the process dies.
C8_SubmitReturnsAfterCancel ==
    (ctxCancelled /\ subPc = "sending" /\ ~CanSend("fetchJobs", fetchJobs))
        ~> (subPc = "idle" \/ panicked)

\* C9: the fetch-job and fetch-result queues never hold more than MaxFetchers
\* items and the parse-job and parse-result queues never more than MaxParsers;
\* SubmitFetchJob returns only from a state where the fetch-job queue has room;
\* and with nobody draining the result queues at most 3 * MaxFetchers jobs are
\* ever accepted: those on the two fetch queues and one per fetch worker.
C9_QueuesBounded ==
    /\ [](/\ Len(fetchJobs) <= cfg.MaxFetchers
          /\ Len(fetchResults) <= cfg.MaxFetchers
          /\ Len(parseJobs) <= cfg.MaxParsers
          /\ Len(parseResults) <= cfg.MaxParsers)
    /\ [](~hist.drained =>
            /\ accepted <= Len(fetchJobs) + Len(fetchResults) + PoolSize("fetcher")
            /\ accepted <= 3 * cfg.MaxFetchers)
    /\ [][accepted' # accepted => Len(fetchJobs) < cfg.MaxFetchers]_vars

\* C9 witness: nobody drains, both fetch queues are full, every fetch worker
\* is blocked on the fetch-result queue, and a further SubmitFetchJob is
\* blocked on the fetch-job queue
C9_Witness ==
    /\ ~ctxCancelled
    /\ subPc = "sending"
    /\ accepted = 3 * cfg.MaxFetchers
    /\ Len(fetchJobs) = cfg.MaxFetchers
    /\ Len(fetchResults) = cfg.MaxFetchers
    /\ BagCardinality(fw) = cfg.MaxFetchers
    /\ \A r \in BagToSet(fw) : r.pc = "sendResult"

\* C10: once Stop has returned, the fetch-result and the parse-result queue
\* are closed, so that a range over either of them ends.
C10_ResultQueuesClosedAfterStop ==
    stopPc = "done" => {"fetchResults", "parseResults"} \subseteq closed

\* every worker goroutine of both pools has returned
AllWorkersReturned ==
    /\ fw = EmptyBag
    /\ pw = EmptyBag
    /\ \A p \in PoolNames : pools[p].wg = 0

\* the order of the steps of Stop, and what it is to give
StopOrder ==
    /\ closed # {} => AllWorkersReturned
    /\ GetStats.EndTimeSet => closed = {"fetchJobs", "parseJobs"}
    /\ \A r \in BagToSet(fw) : r.pc = "sendParseJob" => "parseJobs" \notin closed

\* C11: Stop closes a job queue only after the workers of both pools have
\* returned, writes EndTime only after both job queues are closed, and so no
\* worker is ever about to send a ParseJob to a parse-job queue Stop has closed.
C11_StopOrder == StopOrder

\* the same for a Stop that is called only after Start has returned
StopOrderAfterStart == [](stopPc # "idle" => startPc = "started") => []StopOrder

\* C12: a snapshot returned by GetStats() is the counters of one instant: it
\* never shows a fetch outcome counted without ProcessedSources following
\* (only workers update the counters here), and no later update by a worker
\* changes a snapshot that was returned.
C12_SnapshotAtomic ==
    /\ [](snap # NoStats =>
            snap.ProcessedSources = snap.SuccessfulFetches + snap.FailedFetches)
    /\ [][stats' # stats => snap' = snap]_vars
    /\ [][snap' # snap => snap' = stats /\ stats' = stats]_vars

\* C12 witness: a snapshot taken after a failed fetch was counted, and the
\* workers have counted more since
C12_Witness ==
    /\ snap # NoStats
    /\ snap.FailedFetches = 1
    /\ stats.SuccessfulFetches + stats.FailedFetches > 1
    /\ snap # stats

\* what a pool of requested size n is to run
ClampedSize == IF wpReq < 1 THEN 1 ELSE wpReq

\* steps of the WorkerPool on its own: a Start that launches, a Start that
\* returns, a Stop that gets p.mu, a Stop that returns from wg.Wait()
PoolLaunches == Len(wpHist'.launches) = Len(wpHist.launches) + 1
PoolStartReturns == wpHist'.startReturns = wpHist.startReturns + 1
PoolStopEnters == \E t \in PoolThreads : wpPc[t] = "stop" /\ wpPc'[t] # "stop"
PoolStopJoins == \E t \in PoolThreads : wpPc[t] = "stopWait" /\ wpPc'[t] = "idle"

\* C13: Size() is max(n, 1); a Start on an idle pool launches exactly max(n, 1)
\* workers with the distinct indices 1..max(n, 1), each given the context the
\* pool holds after the call, and returns in the same step, waiting for none.
C13_StartLaunchesSize ==
    /\ [](Size = ClampedSize)
    /\ [](\A g \in DOMAIN wpHist.launches :
            /\ Len(wpHist.launches[g]) = ClampedSize
            /\ { wpHist.launches[g][i] : i \in 1..ClampedSize } = 1..ClampedSize)
    /\ [][(~IsRunning /\ PoolStartReturns) =>
            /\ PoolLaunches
            /\ wpWorkers \subseteq wpWorkers'
            /\ { w.id : w \in wpWorkers' \ wpWorkers } = 1..ClampedSize
            /\ Cardinality(wpWorkers' \ wpWorkers) = ClampedSize
            /\ \A w \in wpWorkers' \ wpWorkers : w.ctx = wp'.ctx]_vars

\* C13 witness: Start has returned on a pool asked for with size 0 and its one
\* worker is still running
C13_Witness ==
    /\ wpReq = 0
    /\ wpHist.startReturns = 1
    /\ \A t \in PoolThreads : wpPc[t] = "idle"
    /\ wpWorkers = {[id |-> 1, ctx |-> 1]}
    /\ IsRunning

\* C14: a Start that finds the pool running changes nothing: no worker is
\* launched, the context is not replaced, isRunning stays true; so while the
\* pool runs the workers launched with its context number size, also when
\* two Start calls race.
C14_StartOnRunningIsNoOp ==
    /\ [][(IsRunning /\ PoolStartReturns) =>
            /\ wp' = wp
            /\ wpWorkers' = wpWorkers
            /\ wpHist'.launches = wpHist.launches]_vars
    /\ [][PoolLaunches => ~IsRunning]_vars
    /\ [](IsRunning => /\ wp.ctx = Len(wpHist.launches)
                       /\ Len(wpHist.launches[wp.ctx]) = Size)

\* C14 witness: two Start calls raced and both have returned, and the pool
\* runs the workers of one launch
C14_Witness ==
    /\ wpHist.raced
    /\ wpHist.startReturns = 2
    /\ Len(wpHist.launches) = 1
    /\ IsRunning
    /\ Cardinality(wpWorkers) = Size
    /\ Size = MaxPoolSize

\* C15: Stop on a running pool cancels the pool's context and returns only
\* when every worker has returned, leaving IsRunning() false, and a Start
\* after it launches size workers with a new context; Stop on a pool that is
\* not running returns at once and changes nothing.
C15_StopWaitsForWorkers ==
    /\ [][(IsRunning /\ PoolStopEnters) =>
            /\ wp.ctx \in wp'.cancelled
            /\ \E t \in PoolThreads : wpPc'[t] = "stopWait"]_vars
    /\ [][PoolStopJoins => wpWorkers = {} /\ wpWorkers' = {} /\ ~IsRunning']_vars
    /\ [][(~IsRunning /\ PoolStopEnters) =>
            /\ wp' = wp
            /\ wpWorkers' = wpWorkers
            /\ \A t \in PoolThreads : wpPc'[t] # "stopWait"]_vars
    /\ [][PoolLaunches =>
            /\ wp'.ctx \notin wp'.cancelled
            /\ Cardinality({ w \in wpWorkers' : w.ctx = wp'.ctx }) = Size]_vars

\* C15 witness: the pool was started, stopped and started again, and runs
\* size workers of the second launch
C15_Witness ==
    /\ Len(wpHist.launches) = 2
    /\ 1 \in wp.cancelled
    /\ IsRunning
    /\ wpWorkers = { [id |-> i, ctx |-> 2] : i \in 1..Size }
    /\ Size = MaxPoolSize

\* what the rule list of a checkRules call matches, stated on the strings:
\* the part of rule i the path has to start with, and whether it does
IsWildcard(i) == crRules[i].Path[Len(crRules[i].Path)] = "*"
MatchedPath(i) ==
    IF IsWildcard(i) THEN SubSeq(crRules[i].Path, 1, Len(crRules[i].Path) - 1)
    ELSE crRules[i].Path
StartsWith(s, t) == Len(t) <= Len(s) /\ \A k \in 1..Len(t) : s[k] = t[k]
RuleMatches(i) ==
    IF IsWildcard(i) THEN StartsWith(crPath, MatchedPath(i))
    ELSE \/ crPath = crRules[i].Path
         \/ /\ StartsWith(crPath, crRules[i].Path)
            /\ Len(crPath) > Len(crRules[i].Path)
            /\ crPath[Len(crRules[i].Path) + 1] = "/"
MatchingRules == { i \in 1..Len(crRules) : RuleMatches(i) }
LongestMatches ==
    { i \in MatchingRules :
        \A j \in MatchingRules : Len(MatchedPath(j)) <= Len(MatchedPath(i)) }

\* C17: checkRules returns allow when no rule matches the path and otherwise
\* the flag of a matching rule whose matched path no other matching rule
\* exceeds in length, wherever that rule stands in the list; a rule ending
\* in * matches the paths starting with the rule less the *, any other rule
\* the path equal to it and the paths starting with the rule and "/".
C17_LongestMatchWins ==
    crOut.done =>
        /\ MatchingRules = {} => crOut.allow
        /\ MatchingRules # {} =>
               \E i \in LongestMatches : crOut.allow = crRules[i].Allow

\* C17 witness: a rule standing second in the list whose matched path is
\* longer than that of the matching wildcard rule before it, with the other
\* flag, has decided the answer
C17_Witness ==
    /\ crOut.done
    /\ Len(crRules) = 2
    /\ MatchingRules = {1, 2}
    /\ IsWildcard(1) /\ ~IsWildcard(2)
    /\ Len(MatchedPath(2)) > Len(MatchedPath(1))
    /\ crRules[1].Allow /\ ~crRules[2].Allow
    /\ ~crOut.allow

\* an IsAllowed call has returned an answer drawn from a robots document
Answered == rcOut.via \in {"cache", "status200"}
\* the agents a document opens a section for
SectionsOf(doc) ==
    { doc[i].value : i \in { j \in DOMAIN doc : doc[j].field = "user-agent" } }
\* the paths the disallow lines of a document's section for an agent name
DisallowedFor(doc, agent) ==
    { doc[i].value :
        i \in { j \in DOMAIN doc :
                  /\ doc[j].field = "disallow"
                  /\ doc[j].value # <<>>
                  /\ \E k \in 1..(j - 1) :
                        /\ doc[k] = UserAgentLine(agent)
                        /\ \A m \in (k + 1)..(j - 1) :
                              doc[m].field # "user-agent" } }

\* C16: when the * section of the robots document says Disallow: /private,
\* IsAllowed for an agent without a section of its own returns false for
\* /private/docs and true for /public.
C16_DisallowDenies ==
    (/\ Answered
     /\ Private \in DisallowedFor(rcOut.doc, Star)
     /\ rcOut.agent \notin SectionsOf(rcOut.doc))
        => /\ rcOut.path = PrivateDocs => ~rcOut.allow
           /\ rcOut.path = Public => rcOut.allow

\* C18: the rules IsAllowed checks the path against are those of the exact
\* agent when the document gives that agent at least one rule, and those of
\* the * section otherwise, also when the agent has a section without
\* disallow lines.
C18_WildcardWhenAgentHasNoRules ==
    Answered =>
        { rcOut.rules[i].Path : i \in DOMAIN rcOut.rules } =
            IF DisallowedFor(rcOut.doc, rcOut.agent) # {}
            THEN DisallowedFor(rcOut.doc, rcOut.agent)
            ELSE DisallowedFor(rcOut.doc, Star)

\* steps of the RobotsCache: an IsAllowed call for the host begins (it reads
\* the cache), a call that issued a request returns
RobotsQueryBegins ==
    /\ rcHist'.calls = rcHist.calls + 1
    /\ ~(rcOut'.via = "nil" /\ rcCalls' = rcCalls)
RobotsFetchReturns(via) ==
    /\ \E c \in RobotsCallers : rcCalls[c].pc = "fetch" /\ rcCalls'[c].pc = "idle"
    /\ rcOut'.via = via

\* C19: a robots request answered 404 stores an empty rule set that expires
\* one TTL after the answer; an IsAllowed call that finds that rule set
\* before its expiration returns true, whatever the agent and the path, and
\* issues no request.
C19_NotFoundCachedUntilExpiry ==
    /\ [][RobotsFetchReturns("status404") =>
            /\ rcCache'.Rules = <<>>
            /\ rcCache'.Expires = rcNow + rcExpiration
            /\ rcOut'.allow /\ ~rcOut'.err]_vars
    /\ [][(/\ RobotsQueryBegins
           /\ rcCache # NoEntry
           /\ rcCache.doc = <<>>
           /\ rcNow < rcCache.Expires) =>
            /\ rcHist'.fetches = rcHist.fetches
            /\ rcCalls' = rcCalls
            /\ rcOut'.via = "cache"
            /\ rcOut'.allow /\ ~rcOut'.err]_vars

\* C19 witness: hours after the one request, answered 404, a second call has
\* been answered true for /private/docs from the cache
C19_Witness ==
    /\ rcOut.via = "cache"
    /\ rcOut.path = PrivateDocs
    /\ rcOut.allow
    /\ rcCache.doc = <<>>
    /\ rcCache.Expires = rcExpiration
    /\ rcNow = MaxTime
    /\ rcHist.fetches = 1

\* C20: when the robots request fails, by a transport error, a status other
\* than 200 and 404 or an unreadable body, IsAllowed returns allow = true
\* with a nil error and the cache entry stays as it was; only a nil URL
\* makes IsAllowed return an error.
C20_FailOpen ==
    /\ [][RobotsFetchReturns("failed") =>
            /\ rcOut'.allow /\ ~rcOut'.err
            /\ rcCache' = rcCache]_vars
    /\ [][(\E c \in RobotsCallers : rcCalls[c].pc = "fetch" /\ rcCalls'[c].pc = "idle")
            => ~rcOut'.err]_vars
    /\ [](rcOut # NoVerdict /\ rcOut.err => rcOut.via = "nil")

\* C20 witness: a request made to refresh an expired entry failed on the
\* body, the call returned true and the expired entry is still in the cache
C20_Witness ==
    /\ rcOut.via = "failed"
    /\ rcOut.cause = "body"
    /\ rcOut.allow /\ ~rcOut.err
    /\ rcCache # NoEntry
    /\ rcCache.doc = DocOwnSection
    /\ ~CacheValid(rcCache, rcNow)

\* an IsAllowed call is answered from the cache in this step
RobotsServedFromCache ==
    /\ rcHist'.calls = rcHist.calls + 1
    /\ rcHist'.fetches = rcHist.fetches
    /\ rcCalls' = rcCalls
    /\ rcOut'.via = "cache"

\* C21: a call is answered from the cached rule set only while the clock is
\* strictly before the entry's expiration; a call that finds no entry, or an
\* entry at or past its expiration, issues a request; and the entry changes
\* only in a step in which a call returns from its request.
C21_NoReadPastExpiry ==
    /\ [][RobotsServedFromCache =>
            /\ rcCache # NoEntry
            /\ rcNow < rcCache.Expires
            /\ rcOut'.doc = rcCache.doc]_vars
    /\ [][(RobotsQueryBegins /\ (rcCache = NoEntry \/ rcNow >= rcCache.Expires)) =>
            /\ rcHist'.fetches = rcHist.fetches + 1
            /\ \E c \in RobotsCallers :
                  rcCalls[c].pc = "idle" /\ rcCalls'[c].pc = "fetch"
            /\ rcOut' = rcOut]_vars
    /\ [][rcCache' # rcCache =>
            \E c \in RobotsCallers :
                rcCalls[c].pc = "fetch" /\ rcCalls'[c].pc = "idle"]_vars

\* C21 witness: a call found the entry exactly at its expiration, one hour or
\* more after it was stored, and is fetching
C21_Witness ==
    /\ rcCache # NoEntry
    /\ rcExpiration > 0
    /\ rcNow = rcCache.Expires
    /\ rcHist.fetches = 2
    /\ \E c \in RobotsCallers : rcCalls[c].pc = "fetch"
    /\ \E c \in RobotsCallers : rcCalls[c].pc = "idle"

\* C22: in a cache built with the Expiration option left at zero, a call made
\* less than 24 hours after a fetched document was stored is answered from
\* the cache without a request.
C22_ZeroExpirationIsDefault ==
    [][(/\ rcHist.option = 0
        /\ RobotsQueryBegins
        /\ rcCache # NoEntry
        /\ rcCache.doc \in RobotsDocs
        /\ rcNow < (rcCache.Expires - rcExpiration) + DefaultExpiration)
          => RobotsServedFromCache]_vars

\* the FetchResult processFetchJob has just built is the answer of a call
\* that was in state r
Returned(r) ==
    /\ ftCalls' = Put(Take(ftCalls, r), IdleCall)
    /\ ftHist'.calls = ftHist.calls

\* C23: when the source respects robots.txt and the rules of its host deny
\* its path, Fetch fails with "disallowed by robots.txt" and sends no content
\* request: no call goes on with a deny verdict, and the FetchResult of a
\* call that got one carries that error and no request was sent.
C23_DenyFailsFetch ==
    /\ \A r \in BagToSet(ftCalls) : r.verdict # "deny"
    /\ (ftOut # NoResult /\ ftOut.verdict = "deny") =>
           (ftOut.err = "disallowed" /\ ~ftOut.sent)

\* the context is done and a call's Wait before the content request, asleep
\* between two polls, returns
WaitFails(r) ==
    /\ r \in BagToSet(ftCalls)
    /\ r.pc = "waitSleep" /\ r.stage = "content"
    /\ ftCtxDone
    /\ CopiesIn(r, ftCalls') < CopiesIn(r, ftCalls)

\* C24: when Wait returns the cancellation error inside Fetch, Fetch sends no
\* content request and returns the wrapped error with nil content; the worker
\* puts that error on the FetchResult, counts one failed fetch and no
\* successful one, and the result is one for which no ParseJob is made.
C24_WaitErrorFailsFetch ==
    [][\A r \in BagToSet(ftCalls) : WaitFails(r) =>
          /\ Returned(r)
          /\ ftOut'.content = 0 /\ ftOut'.err = "rate" /\ ~ftOut'.sent
          /\ ftStats'.FailedFetches = ftStats.FailedFetches + 1
          /\ ftStats'.SuccessfulFetches = ftStats.SuccessfulFetches
          /\ ~WantsParseJob([content |-> ftOut'.content, err |-> ftOut'.err # "none"])]_vars

\* a fetch succeeded, the context was cancelled, and the Wait of the next
\* fetch returned the error
C24_Witness ==
    /\ ftCtxDone
    /\ ftOut # NoResult /\ ftOut.err = "rate"
    /\ ftStats.SuccessfulFetches = 1 /\ ftStats.FailedFetches = 1

\* the jobs on the fetch-job queue
QueuedJobs == { fetchJobs[i] : i \in 1..Len(fetchJobs) }

\* worker r of the bag leaves its state
Leaves(r, bag, bagAfter) == CopiesIn(r, bagAfter) < CopiesIn(r, bag)

ParseJobProcessed(r, q, msg) ==
    /\ r.pc = "process" /\ Leaves(r, pw, pw')
    /\ q.pc = "sendResult" /\ q.job = r.job /\ q.res.msg = msg
    /\ pw' = Put(Take(pw, r), q)

\* C26: a ParseJob without a registered parser gets a ParseResult with the
\* "no parser available" error and no items, no parser having been called;
\* FailedParses goes up by one and nothing else in the statistics changes,
\* exactly as for an error a parser reports; no source gets two ParseResults,
\* and the result of the job is placed on the parse-result queue.
C26_NoParserCountsAsFailure ==
    /\ [][\A r \in BagToSet(pw), q \in BagToSet(pw') :
            ParseJobProcessed(r, q, "no parser available") =>
                /\ q.res.source = r.job.source
                /\ q.res.err /\ ~q.res.items /\ ~q.res.parsed
                /\ stats' = [stats EXCEPT !.FailedParses = @ + 1]]_vars
    /\ [][\A r \in BagToSet(pw), q \in BagToSet(pw') :
            ParseJobProcessed(r, q, "parser error") =>
                stats' = [stats EXCEPT !.FailedParses = @ + 1]]_vars
    /\ [](\A j \in Jobs : hist.parseResultsPlaced[j] <= 1)
    /\ \A j \in 1..RunJobs :
         (\E r \in BagToSet(pw) : /\ r.pc = "sendResult"
                                  /\ r.res.source = j
                                  /\ r.res.msg = "no parser available")
           ~> (/\ hist.parseResultsPlaced[j] = 1
               /\ \A r \in BagToSet(pw) : r.pc = "sendResult" => r.res.source # j)

\* C26 witness: the ParseResult of a job without a parser is on the
\* parse-result queue and is the only failed parse counted
C26_Witness ==
    /\ \E i \in 1..Len(parseResults) :
         /\ parseResults[i].msg = "no parser available"
         /\ hist.parseResultsPlaced[parseResults[i].source] = 1
    /\ stats.FailedParses = 1
    /\ stats.SuccessfulParses = 1

\* a take() is granted on this step
TakeGranted == ftHist'.granted = ftHist.granted + 1

\* C27: the token count of the bucket is always within 0..capacity, whatever
\* the workers' takes and the idle time before a refill; the takes granted
\* never exceed the capacity plus the whole tokens the rate yields since the
\* bucket was made; a granted take leaves one token less than the capped
\* refill gave, and a refused one leaves the bucket as it was.
C27_TokensWithinCapacity ==
    /\ [](ftBucket # NoBucket =>
            /\ ftBucket.tokens \in 0..ftBucket.capacity
            /\ ftHist.granted <=
                 ftBucket.capacity + ((ftNow - ftHist.created) \div ftBucket.period))
    /\ [][TakeGranted =>
            /\ ftBucket # NoBucket
            /\ ftBucket'.tokens =
                 Min(ftBucket.capacity,
                     ftBucket.tokens + ((ftNow - ftBucket.lastRefill) \div ftBucket.period)) - 1
            /\ ftBucket'.tokens >= 0]_vars
    /\ [][(ftBucket # NoBucket /\ ~TakeGranted) => ftBucket' = ftBucket]_vars

\* C27 witness: after an idle time of more than one period a take found the
\* bucket refilled to its capacity, and a second worker's take was refused
C27_Witness ==
    /\ ftBucket # NoBucket
    /\ ftBucket.tokens = 0
    /\ ftHist.granted = ftBucket.capacity + 1
    /\ ftNow - ftHist.created > ftBucket.period
    /\ ftBucket.lastRefill = ftNow
    /\ \E r \in BagToSet(ftCalls) : r.pc = "waitSleep"
    /\ \E r \in BagToSet(ftCalls) : r.pc = "do"

\* of the takes made at the moment a take found the bucket full, the first
\* `capacity` are granted and every further one is refused
BurstGrantsCapacity ==
    [](ftHist.burst # NoBurst =>
         ftHist.burst.ok = Min(ftHist.burst.n, ftBucket.capacity))

\* a take is granted after capacity + 1 takes on the full bucket
GrantedAfterBurst ==
    /\ TakeGranted
    /\ ftHist.burst # NoBurst
    /\ ftHist.burst.n > ftBucket.capacity

\* C28 as stated: a full bucket grants exactly `capacity` takes made at one
\* moment and refuses the next, and a later take is granted only once a
\* period (1 / rate) has passed since those takes.
C28_NextTakeAfterPeriod ==
    /\ BurstGrantsCapacity
    /\ [][GrantedAfterBurst => ftNow - ftHist.burst.at >= ftBucket.period]_vars

\* C28, amended: a full bucket grants exactly `capacity` takes made at one
\* moment and refuses the next, and a later take is granted only once a
\* period (1 / rate) has passed since the bucket's lastRefill, which is the
\* moment of those takes only if the bucket was made or refilled then.
C28_NextTakeAfterRefillPeriod ==
    /\ BurstGrantsCapacity
    /\ [][GrantedAfterBurst =>
            /\ ftBucket.tokens = 0
            /\ ftNow - ftBucket.lastRefill >= ftBucket.period]_vars

\* C28 witness: a bucket of capacity 2 that was full before has granted two
\* takes and refused a third at one moment, less than a period has passed
\* since, a period has passed since lastRefill, and a worker is about to take
C28_Witness ==
    /\ ftBucket # NoBucket /\ ftBucket.capacity = 2 /\ ftBucket.tokens = 0
    /\ ftHist.burst # NoBurst /\ ftHist.burst.n = 3 /\ ftHist.burst.ok = 2
    /\ ftNow - ftHist.burst.at < ftBucket.period
    /\ ftNow - ftBucket.lastRefill >= ftBucket.period
    /\ \E r \in BagToSet(ftCalls) : CanPoll(r)

\* call r is in RateLimiter.Wait
InWait(r) == r.pc \in {"waitTake", "waitSleep"}

\* C29: Wait returns nil only on a step that takes a token; a take is granted
\* only to a call that is at its first take or has slept with the context
\* not done; a call asleep in Wait when the context is done leaves Wait
\* without a take and with the error (Fetch fails with it, checkRobotsTxt
\* answers with it); and a call asleep in Wait when the context is done can
\* always take that step and cannot poll again.
C29_WaitStopsOnCancel ==
    /\ [][\A r \in BagToSet(ftCalls), q \in BagToSet(ftCalls') :
            (InWait(r) /\ Leaves(r, ftCalls, ftCalls') /\ q.pc = "do"
             /\ ftCalls' = Put(Take(ftCalls, r), q)) => TakeGranted]_vars
    /\ [][TakeGranted =>
            \E r \in BagToSet(ftCalls) :
                /\ Leaves(r, ftCalls, ftCalls')
                /\ r.pc = "waitTake" \/ (r.pc = "waitSleep" /\ ~ftCtxDone)]_vars
    /\ [][\A r \in BagToSet(ftCalls) :
            (r.pc = "waitSleep" /\ ftCtxDone /\ Leaves(r, ftCalls, ftCalls')) =>
                /\ ftHist'.granted = ftHist.granted
                /\ ftBucket' = ftBucket
                /\ r.stage = "content" =>
                     /\ Returned(r)
                     /\ ftOut'.err = "rate"
                /\ r.stage = "robots" =>
                     ftCalls' = Put(Take(ftCalls, r),
                                    [r EXCEPT !.pc = "waitEnter", !.stage = "content",
                                              !.verdict = "error"])]_vars
    /\ [](\A r \in BagToSet(ftCalls) :
            (r.pc = "waitSleep" /\ ftCtxDone) =>
                /\ ENABLED WaitCancelled(r)
                /\ ~ENABLED WaitPoll(r))

\* C29 witness: the context was cancelled while a call slept in Wait on the
\* empty bucket, and the call has returned the error
C29_Witness ==
    /\ ftCtxDone
    /\ ftBucket # NoBucket /\ ftBucket.tokens = 0
    /\ ftOut # NoResult /\ ftOut.err = "rate"
    /\ \A r \in BagToSet(ftCalls) : ~InWait(r)

HoldersOf(j) ==
    { r \in BagToSet(fw) : r.job = j /\ r.pc \in {"process", "sendResult"} }

\* C31: every FetchJob a fetch worker has dequeued has exactly one FetchResult
\* on record as placed on the fetch-result queue, or is still in the hands of
\* the worker that dequeued it, also when the run is cancelled: no worker
\* exits with a job whose FetchResult it has not placed.
C31_ResultPlacedBeforeExit ==
    \A j \in Jobs :
        /\ hist.fetchResultsPlaced[j] <= 1
        /\ hist.dequeued[j] > 0 =>
             \/ hist.fetchResultsPlaced[j] = 1
             \/ HoldersOf(j) # {}

\* without cancellation every dequeued job is answered or still being worked on
ResultPlacedUnlessCancelled == ctxCancelled \/ C31_ResultPlacedBeforeExit

\* the FetchResult of record r carries content and no error
Succeeded(r) == r.res.err = FALSE /\ r.res.content # 0

\* one step of the fetch worker r in the order fetch, push the FetchResult,
\* push the ParseJob on success, next job: its record after the step, and
\* what the step does to the queues
FetchWorkerAdvances(r) ==
    \/ /\ r.pc = "select"
       /\ r.job = 0
       /\ fetchJobs # <<>>
       /\ fetchJobs' = Tail(fetchJobs)
       /\ fw' = Put(Take(fw, r), [pc |-> "process", job |-> Head(fetchJobs),
                                  res |-> Nil])
       /\ UNCHANGED <<fetchResults, parseJobs>>
    \/ /\ r.pc = "process"
       /\ \E s \in BagToSet(fw') :
            /\ s.pc = "sendResult" /\ s.job = r.job /\ s.res.source = r.job
            /\ fw' = Put(Take(fw, r), s)
       /\ UNCHANGED <<fetchJobs, fetchResults, parseJobs>>
    \/ /\ r.pc = "sendResult"
       /\ fetchResults' = Append(fetchResults, r.res)
       /\ fw' = Put(Take(fw, r),
                    IF Succeeded(r) THEN [r EXCEPT !.pc = "sendParseJob"]
                    ELSE [pc |-> "select", job |-> 0, res |-> Nil])
       /\ UNCHANGED <<fetchJobs, parseJobs>>
    \/ /\ r.pc = "sendParseJob"
       /\ Succeeded(r)
       /\ hist.fetchResultsPlaced[r.job] > 0
       /\ parseJobs' = Append(parseJobs, [source |-> r.job, content |-> r.res.content])
       /\ fw' = Put(Take(fw, r), [pc |-> "select", job |-> 0, res |-> Nil])
       /\ UNCHANGED <<fetchJobs, fetchResults>>

\* the fetch worker r returns: between two jobs, or from a push that
\* cancellation aborts
FetchWorkerExits(r) ==
    /\ fw' = Take(fw, r)
    /\ \/ r.pc = "select"
       \/ r.pc \in {"sendResult", "sendParseJob"} /\ CtxDone("fetcher")
    /\ UNCHANGED <<fetchJobs, fetchResults, parseJobs>>

\* the fetch workers are launched
FetchWorkersLaunched ==
    /\ fw' = fw (+) Copies([pc |-> "select", job |-> 0, res |-> Nil],
                           PoolSize("fetcher"))
    /\ UNCHANGED <<fetchJobs, fetchResults, parseJobs>>

\* C32: a fetch worker works on one job at a time in the order: Fetcher.Fetch,
\* push of the FetchResult, then on success only the push of the ParseJob made
\* from it, and only then the next job, a push ending without its send only by
\* cancellation; so a source's ParseJob and ParseResult are never placed
\* before its FetchResult.
C32_FetchThenResultThenParseJob ==
    /\ [][(\/ fw' # fw
            \/ Len(fetchJobs') < Len(fetchJobs)
            \/ Len(fetchResults') > Len(fetchResults)
            \/ Len(parseJobs') > Len(parseJobs))
            => \/ FetchWorkersLaunched
               \/ \E r \in BagToSet(fw) : FetchWorkerAdvances(r) \/ FetchWorkerExits(r)]_vars
    /\ [](\A j \in Jobs :
            /\ hist.parseJobsPlaced[j] > 0 => hist.fetchResultsPlaced[j] > 0
            /\ hist.parseResultsPlaced[j] > 0 => hist.parseJobsPlaced[j] > 0)
    /\ [](\A r \in BagToSet(fw) :
            /\ r.pc = "select" => r.job = 0
            /\ r.pc = "sendParseJob" => Succeeded(r) /\ hist.fetchResultsPlaced[r.job] > 0)

\* C32 witness: a worker waits to push the ParseJob of a source whose
\* FetchResult is on the fetch-result queue, a further job waits on the
\* fetch-job queue, and the run has been cancelled
C32_Witness ==
    /\ ctxCancelled
    /\ fetchJobs # <<>>
    /\ \E r \in BagToSet(fw) :
         /\ r.pc = "sendParseJob"
         /\ fetchResults # <<>>
         /\ fetchResults[Len(fetchResults)] = r.res

\* the calls whose content request is under way
ContentRequests == { c \in BagToSet(ftCalls) : c.pc = "do" /\ c.stage = "content" }

\* a worker builds a FetchResult from what Fetch returned
FetchReturns == ftStats' # ftStats

\* C33: Fetch returns a Content and no error, or an error and no Content,
\* on every path; a content request that meets a transport error or a status
\* outside 200..299 returns an error and no Content, and one that gets a
\* status in 200..299 with a readable body returns a Content carrying that
\* status and no error.
C33_ContentXorError ==
    /\ [][FetchReturns => (ftOut'.content # 0 <=> ftOut'.err = "none")]_vars
    /\ [][(FetchReturns /\ ftOut'.sent) =>
            \E r \in ContentRequests, response \in ContentResponses :
                ftOut' = ContentOutcome(r, response).res]_vars
    /\ [](\A r \in ContentRequests, response \in ContentResponses :
            LET res == ContentOutcome(r, response).res
            IN /\ (response.kind = "transport" \/ response.status \notin 200..299)
                     => (res.content = 0 /\ res.err = "request")
               /\ (response.kind = "read" /\ response.status \in 200..299)
                     => (res.content = response.status /\ res.err = "none"))

\* C33 witness: a fetch returned a Content with status 299, counted as the one
\* success, after a fetch that failed
C33_Witness ==
    /\ ftOut # NoResult
    /\ ftOut.content = 299 /\ ftOut.err = "none"
    /\ ftStats.SuccessfulFetches = 1 /\ ftStats.FailedFetches = 1

\* C34: a request whose redirect chain has at most MaxRedirects redirects is
\* followed to its final response, and a request whose chain has
\* MaxRedirects + 1 or more redirects fails.
C34_RedirectsUpToMax ==
    hcOut # NoResponse =>
        /\ hcOut.chain <= hcMaxRedirects =>
               (hcOut.err = "none" /\ hcOut.followed = hcOut.chain)
        /\ hcOut.chain >= hcMaxRedirects + 1 => hcOut.err = "stopped"

\* what the client does: a chain is followed to its end when it has no
\* redirect or fewer than MaxRedirects redirects, and the request fails at
\* the redirect CheckRedirect is asked about with len(via) >= MaxRedirects
RedirectsBelowMax ==
    hcOut # NoResponse =>
        IF hcOut.chain = 0 \/ hcOut.chain < hcMaxRedirects
        THEN hcOut.err = "none" /\ hcOut.followed = hcOut.chain
        ELSE hcOut.err = "stopped" /\ hcOut.followed < hcOut.chain

\* a thread runs Start from Lock to Unlock while no other thread holds p.mu
PoolStartRuns == ~PoolMuHeld /\ \E t \in PoolThreads : wpPc[t] = "start" /\ wpPc'[t] = "idle"

\* C35: while isRunning is false no worker of the pool is executing; it
\* becomes true only in a Start that holds the lock and launches the workers
\* in the same critical section, and false again only in a Stop that returns
\* from wg.Wait() with every worker returned, still holding the lock.
C35_IdleMeansNoWorkers ==
    /\ [](~IsRunning => wpWorkers = {} /\ wp.wg = 0)
    /\ [][(~IsRunning /\ IsRunning') =>
            /\ PoolStartRuns
            /\ PoolLaunches
            /\ wpWorkers' # {}]_vars
    /\ [][(IsRunning /\ ~IsRunning') =>
            /\ PoolStopJoins
            /\ PoolMuHeld
            /\ wpWorkers = {} /\ wpWorkers' = {}]_vars
    /\ [][wpWorkers' \ wpWorkers # {} => IsRunning']_vars

\* C35 witness: the pool was started with MaxPoolSize workers and stopped, and
\* a Start call waits for the lock of the idle pool
C35_Witness ==
    /\ ~IsRunning
    /\ wpWorkers = {}
    /\ Len(wpHist.launches) = 1
    /\ 1 \in wp.cancelled
    /\ Size = MaxPoolSize
    /\ \E t \in PoolThreads : wpPc[t] = "start"

\* steps of the WorkerPool on its own: a worker returns, a Wait call returns
PoolWorkerReturns == wpWorkers' # wpWorkers /\ wpWorkers' \subseteq wpWorkers
PoolWaitReturns == wpHist'.waits = wpHist.waits + 1

\* C36: isRunning goes back to false only in Stop: the return of a worker,
\* also of the last one, and the return of Wait() leave the pool's fields as
\* they are, so a pool that was started and that no Stop has cancelled has
\* IsRunning() true, and a Start on it with no worker left is rejected: it
\* changes nothing and launches no worker.
C36_IdleOnlyThroughStop ==
    /\ [][(IsRunning /\ ~IsRunning') => PoolStopJoins]_vars
    /\ [][PoolWorkerReturns => IsRunning' = IsRunning]_vars
    /\ [][PoolWaitReturns => (wp' = wp /\ wpWorkers = {} /\ wpWorkers' = {})]_vars
    /\ []((Len(wpHist.launches) > 0 /\ wp.cancelled = {}) => IsRunning)
    /\ [][(IsRunning /\ wpWorkers = {} /\ PoolStartReturns) =>
            /\ wp' = wp
            /\ wpWorkers' = {}
            /\ wpHist'.launches = wpHist.launches]_vars

\* C36 witness: the workers of the one launch have returned on their own, a
\* Wait() call has returned, no Stop has cancelled the pool, and a Start call
\* made with no worker left has been rejected
C36_Witness ==
    /\ IsRunning
    /\ wpWorkers = {}
    /\ wp.cancelled = {}
    /\ wpHist.waits = 1
    /\ wpHist.lateStart
    /\ Len(wpHist.launches) = 1
    /\ Size = MaxPoolSize

\* a caller is about to close a queue that is closed, or to send to one
CloseOfClosed == stopPc \in DOMAIN StopCloses /\ StopCloses[stopPc] \in closed
SendOnClosed ==
    \/ subPc = "sending" /\ "fetchJobs" \in closed
    \/ \E r \in BagToSet(fw) : r.pc = "sendParseJob" /\ "parseJobs" \in closed

\* C37: whatever the order and interleaving of Start, Stop, SubmitFetchJob
\* and the workers, no caller is ever about to close a job queue that is
\* already closed or to send to a job queue that is closed, and the process
\* never dies of either.
C37_CloseOnceNoSendAfter ==
    /\ ~CloseOfClosed
    /\ ~SendOnClosed
    /\ ~panicked

\* the same for runs in which Stop is called once, after Start has returned,
\* and no SubmitFetchJob call is under way or made once Stop has been called
StopOnceAfterSubmits ==
    [](stopPc # "idle" => (startPc = "started" /\ subPc = "idle"))
        => [](~CloseOfClosed /\ ~SendOnClosed /\ ~panicked)

\* how many results of source j a queue or a bag of held results has
OnQueue(q, j) == Cardinality({ i \in 1..Len(q) : q[i].source = j })
HeldBy(b, j) == SumOver([r \in BagToSet(b) |-> IF r.source = j THEN CopiesIn(r, b) ELSE 0],
                        BagToSet(b))

\* C38: every FetchResult and ParseResult placed on a result queue is on the
\* queue or has been received by exactly one consumer, a drain task of Wait()
\* or the external reader and never both; and a result a drain task received
\* is held or has been counted by that one task, however many drain tasks
\* further Wait() calls have added.
C38_ResultReceivedOnce ==
    /\ BagCardinality(fd) <= waitCalls
    /\ BagCardinality(pd) <= waitCalls
    /\ \A j \in Jobs :
         /\ hist.fetchDrains[j] + hist.fetchReads[j] + OnQueue(fetchResults, j)
              = hist.fetchResultsPlaced[j]
         /\ hist.fetchDrains[j] + hist.fetchReads[j] <= 1
         /\ hist.fetchCounts[j] + HeldBy(fd, j) = hist.fetchDrains[j]
         /\ hist.parseDrains[j] + hist.parseReads[j] + OnQueue(parseResults, j)
              = hist.parseResultsPlaced[j]
         /\ hist.parseDrains[j] + hist.parseReads[j] <= 1
         /\ hist.parseCounts[j] + HeldBy(pd, j) = hist.parseDrains[j]

\* C38 witness: Wait() was called twice; of two FetchResults one went to a
\* drain task, which has counted it, and the other to the reader, and a
\* drain task holds a ParseResult
C38_Witness ==
    /\ waitCalls = 2
    /\ \E j, k \in Jobs :
         /\ j # k
         /\ hist.fetchDrains[j] = 1 /\ hist.fetchCounts[j] = 1
         /\ hist.fetchReads[k] = 1
    /\ BagCardinality(pd) = 1

\* the rule set of every robots document
ParsedDocs == [doc \in RobotsDocs |-> parseRobotsTxt(doc)]

\* a call stores a rule set in the cache
RobotsStores == rcCache' # rcCache

=============================================================================
